---- MODULE Spec2Model ----
(***************************************************************************)
(* Git Diff Navigator (gitdiff.py): the navigation state machine and the   *)
(* git-reference resolution engine.                                        *)
(*                                                                         *)
(* Strings of the program are TLA+ strings; a path is the sequence of its  *)
(* components, a line of text the sequence of its whitespace-separated     *)
(* tokens, a git command the sequence of its arguments.  List indices are  *)
(* 0-based as in the program: item i of a list is element i+1 of the       *)
(* sequence that models it.                                                *)
(***************************************************************************)
EXTENDS Integers, Sequences, FiniteSets, TLC

(***************************************************************************)
(* Bounds of the model.                                                    *)
(***************************************************************************)
\* Longest commit log the log query returns.
MaxLog == 2
\* The restore_state callbacks that can wait for a refresh at one time.
MaxPending == 2
\* The most highlight callbacks of the Files list that wait for a refresh.
MaxCallbacks == 3
\* The most moves of PageUp and PageDown that wait for their callbacks.
MaxPages == 1

(***************************************************************************)
(* Values.                                                                 *)
(***************************************************************************)
\* Python's None, where the program holds a string or nothing.
None == "None"
\* Python's None, where the program holds a list index or nothing.
NoIndex == -1

Truthy(s) == s # None /\ s # ""

Max(a, b) == IF a >= b THEN a ELSE b
Min(a, b) == IF a <= b THEN a ELSE b

\* The pygit2 status flags the program reads; INDEX_RENAMED stands for the
\* flags pygit2 reports and the program never tests.
StatusFlags ==
    {"CONFLICTED", "INDEX_NEW", "INDEX_MODIFIED", "INDEX_DELETED",
     "WT_NEW", "WT_MODIFIED", "WT_DELETED", "IGNORED", "INDEX_RENAMED"}

\* flags & mask, as a truth value.
HasAny(flags, mask) == flags \cap mask # {}

\* app.repo_status_map.get(rel, 0): the map is keyed by the path relative to
\* the repository root.
StatusGet(status_map, rel) ==
    IF rel \in DOMAIN status_map THEN status_map[rel] ELSE {}

\* Abbreviated commit hashes: the tokens that are hexadecimal numbers.
HexTokens == {"c0", "c1", "c2"}

(***************************************************************************)
(* Paths.                                                                  *)
(***************************************************************************)
\* name.startswith("..")
StartsWithDotDot(name) == name \in {"..", "..f"}

RECURSIVE CommonPrefixLen(_, _)
CommonPrefixLen(p, q) ==
    IF p = <<>> \/ q = <<>> \/ Head(p) # Head(q) THEN 0
    ELSE 1 + CommonPrefixLen(Tail(p), Tail(q))

\* os.path.relpath(full, root) on absolute, normalised paths.
RelPath(full, root) ==
    LET k    == CommonPrefixLen(full, root)
        ups  == [i \in 1..(Len(root) - k) |-> ".."]
        rest == SubSeq(full, k + 1, Len(full))
    IN  IF ups \o rest = <<>> THEN <<".">> ELSE ups \o rest

\* os.path.join(path, name)
Join(path, name) == Append(path, name)

\* os.path.dirname(path): the root is its own parent.
Parent(path) ==
    IF path = <<>> THEN <<>> ELSE SubSeq(path, 1, Len(path) - 1)

\* os.path.basename(path)
Basename(path) == path[Len(path)]

\* `rel and not rel.startswith("..")`
InsideRepo(rel) == rel # <<>> /\ ~StartsWithDotDot(rel[1])

(***************************************************************************)
(* StatusClassifier: FileList.set_path, the status of one file.            *)
(***************************************************************************)
IndexFlags == {"INDEX_NEW", "INDEX_MODIFIED", "INDEX_DELETED"}
WtFlags == {"WT_NEW", "WT_MODIFIED", "WT_DELETED"}

\* The if/elif chain over the flags of a path inside the repository.
ClassifyFlags(flags) ==
    IF "CONFLICTED" \in flags THEN "conflicted"
    ELSE IF HasAny(flags, IndexFlags) THEN "staged"
    ELSE IF "WT_DELETED" \in flags THEN "wt_deleted"
    ELSE IF "IGNORED" \in flags THEN "ignored"
    ELSE IF HasAny(flags, {"WT_MODIFIED", "INDEX_MODIFIED"}) THEN "modified"
    ELSE IF "WT_NEW" \in flags THEN "untracked"
    ELSE "tracked_clean"

\* A variant of Classify that does not look where the file is.
ClassifyAnywhere(app, path, name) ==
    IF app.repo_available /\ app.repo_root # <<>>
    THEN ClassifyFlags(StatusGet(app.repo_status_map,
                                 RelPath(Join(path, name), app.repo_root)))
    ELSE "untracked"

\* repo_status of the file `name` listed in directory `path`; app holds the
\* attributes of the application (repo_available, repo_root, repo_status_map).
Classify(app, path, name) ==
    IF app.repo_available /\ app.repo_root # <<>> THEN
        LET rel == RelPath(Join(path, name), app.repo_root)
        IN  IF InsideRepo(rel)
            THEN ClassifyFlags(StatusGet(app.repo_status_map, rel))
            ELSE "untracked"
    ELSE "untracked"

(***************************************************************************)
(* HistoryAssembler: the items FileList.on_key (Right on a file) and       *)
(* GitHistoryTool._open_history_for_file put in the History list.          *)
(*                                                                         *)
(* An item is [hash, text, checked]: `hash` its _hash attribute (None when *)
(* it has none), `text` its _raw_text, or its label when it has none,      *)
(* `checked` its _checked attribute.                                       *)
(***************************************************************************)
MODS == "MODS"
STAGED == "STAGED"

\* re.match(r"^\s*(\S+)\s+([0-9a-fA-F]+)\b", line).group(2), None without
\* a match: the second token, when it is a hexadecimal number.
ParseHash(line) ==
    IF Len(line) >= 2 /\ line[2] \in HexTokens THEN line[2] ELSE None

Item(hash, text) == [hash |-> hash, text |-> text, checked |-> FALSE]

\* f"No git history for {item_name}"
NoHistoryItem(item_name) ==
    Item(None, <<"No", "git", "history", "for", item_name>>)

\* The ListItem of one line of the log.
CommitItem(line) == Item(ParseHash(line), line)

\* The ListItem of a pseudo entry; mtime is None when none could be read.
PseudoItem(pseudo, mtime) ==
    Item(pseudo, IF Truthy(mtime) THEN <<mtime, pseudo>> ELSE <<pseudo>>)

\* pseudo_entries, from the status flags of the file; app holds the
\* attributes of the application (repo_available, repo_root, path,
\* repo_status_map).
PseudoEntries(app, item_name) ==
    IF app.repo_available /\ app.repo_root # <<>> THEN
        LET rel == RelPath(Join(app.path, item_name), app.repo_root)
        IN  IF InsideRepo(rel) THEN
                LET flags     == StatusGet(app.repo_status_map, rel)
                    has_index == HasAny(flags, IndexFlags)
                    has_wt    == HasAny(flags, WtFlags)
                IN  IF has_wt /\ has_index THEN <<MODS, STAGED>>
                    ELSE IF has_index THEN <<STAGED>>
                    ELSE IF has_wt THEN <<MODS>>
                    ELSE <<>>
            ELSE <<>>
    ELSE <<>>

\* The modification time shown with a pseudo entry: that of the index for
\* STAGED, that of the working file for MODS.
PseudoMtime(pseudo, index_mtime, file_mtime) ==
    IF pseudo = STAGED THEN index_mtime ELSE file_mtime

PseudoItems(pseudo_entries, index_mtime, file_mtime) ==
    [i \in 1..Len(pseudo_entries) |->
        PseudoItem(pseudo_entries[i],
                   PseudoMtime(pseudo_entries[i], index_mtime, file_mtime))]

CommitItems(out) == [i \in 1..Len(out) |-> CommitItem(out[i])]

Reverse(s) == [i \in 1..Len(s) |-> s[Len(s) + 1 - i]]

\* A variant of Assemble that lists the pseudo entries in reverse order.
AssembleStagedFirst(app, item_name, out, index_mtime, file_mtime) ==
    IF out # <<>> THEN
        PseudoItems(Reverse(PseudoEntries(app, item_name)), index_mtime,
                    file_mtime)
        \o CommitItems(out)
    ELSE <<NoHistoryItem(item_name)>>

\* A variant of Assemble that lists the pseudo entries after the commits.
AssemblePseudoLast(app, item_name, out, index_mtime, file_mtime) ==
    IF out # <<>> THEN
        CommitItems(out)
        \o PseudoItems(PseudoEntries(app, item_name), index_mtime, file_mtime)
    ELSE <<NoHistoryItem(item_name)>>

\* FileList.on_key, Right on the file item_name: the new contents of the
\* History list for the log `out` (the lines of git log's output).
Assemble(app, item_name, out, index_mtime, file_mtime) ==
    IF out # <<>> THEN
        PseudoItems(PseudoEntries(app, item_name), index_mtime, file_mtime)
        \o CommitItems(out)
    ELSE <<NoHistoryItem(item_name)>>

\* GitHistoryTool._open_history_for_file: the same for the file named on
\* the command line.
AssembleInitial(item_name, out) ==
    IF out # <<>> THEN CommitItems(out) ELSE <<NoHistoryItem(item_name)>>

IsPseudoItem(e) == e.hash \in {MODS, STAGED}
IsSentinelItem(e) == e.hash = None /\ e.text[1] = "No"
IsCommitItem(e) == ~IsPseudoItem(e) /\ ~IsSentinelItem(e)

(***************************************************************************)
(* SelectionPairer: HistoryList.on_key (Right), the pair of items to diff. *)
(***************************************************************************)
\* The index of the first checked item, NoIndex when none is checked.
CheckedIdx(nodes) ==
    IF \E i \in 1..Len(nodes) : nodes[i].checked
    THEN (CHOOSE i \in 1..Len(nodes) :
              nodes[i].checked /\ \A j \in 1..(i - 1) : ~nodes[j].checked) - 1
    ELSE NoIndex

NoPair(notice) ==
    [ok |-> FALSE, notice |-> notice, i_older |-> NoIndex, i_newer |-> NoIndex]

Pair(older, newer) ==
    [ok |-> TRUE, notice |-> None, i_older |-> older, i_newer |-> newer]

\* A variant of SelectPair that tests the end of the list one item late.
SelectPairPastEnd(nodes, idx) ==
    LET checked_idx == CheckedIdx(nodes)
    IN  IF idx < 0 \/ nodes = <<>> THEN NoPair("No commit to diff with")
        ELSE IF checked_idx = NoIndex \/ checked_idx = idx THEN
            IF idx > Len(nodes) - 1
            THEN NoPair("No earlier commit to diff with")
            ELSE Pair(idx + 1, idx)
        ELSE Pair(Max(idx, checked_idx), Min(idx, checked_idx))

\* A variant of SelectPair that takes the checked item as the older side.
SelectPairMarkIsOlder(nodes, idx) ==
    LET checked_idx == CheckedIdx(nodes)
    IN  IF idx < 0 \/ nodes = <<>> THEN NoPair("No commit to diff with")
        ELSE IF checked_idx = NoIndex \/ checked_idx = idx THEN
            IF idx >= Len(nodes) - 1
            THEN NoPair("No earlier commit to diff with")
            ELSE Pair(idx + 1, idx)
        ELSE Pair(checked_idx, idx)

\* i_older and i_newer for the highlighted index idx, or the notice shown
\* when there is no pair.
SelectPair(nodes, idx) ==
    LET checked_idx == CheckedIdx(nodes)
    IN  IF idx < 0 \/ nodes = <<>> THEN NoPair("No commit to diff with")
        ELSE IF checked_idx = NoIndex \/ checked_idx = idx THEN
            IF idx >= Len(nodes) - 1
            THEN NoPair("No earlier commit to diff with")
            ELSE Pair(idx + 1, idx)
        ELSE Pair(Max(idx, checked_idx), Min(idx, checked_idx))

(***************************************************************************)
(* DiffResolver: the two _build_diff_cmd functions.                        *)
(***************************************************************************)
\* _is_pseudo
IsPseudo(h) == h \in {STAGED, MODS}

\* `h and not _is_pseudo(h)`
IsCommit(h) == Truthy(h) /\ ~IsPseudo(h)

\* A variant of HistoryBuildDiffCmd that resolves a pseudo ref only on the
\* newer side.
HistoryBuildDiffCmdBySide(prev, curr, fname) ==
    IF curr = MODS /\ prev = STAGED THEN <<"git", "diff", "--", fname>>
    ELSE IF curr = MODS /\ IsCommit(prev)
        THEN <<"git", "diff", prev, "--", fname>>
    ELSE IF curr = STAGED /\ IsCommit(prev)
        THEN <<"git", "diff", "--cached", prev, "--", fname>>
    ELSE IF Truthy(prev) /\ Truthy(curr)
        THEN <<"git", "diff", prev, curr, "--", fname>>
    ELSE <<"git", "diff", "--", fname>>

\* A variant of HistoryBuildDiffCmd that diffs the two pseudo refs against
\* HEAD.
HistoryBuildDiffCmdHead(prev, curr, fname) ==
    IF IsPseudo(prev) /\ IsPseudo(curr) /\ prev # curr
    THEN <<"git", "diff", "HEAD", "--", fname>>
    ELSE HistoryBuildDiffCmdBySide(prev, curr, fname)

\* A variant of HistoryBuildDiffCmd that compares a commit with the index
\* where it should compare it with the working tree.
HistoryBuildDiffCmdWorkingCached(prev, curr, fname) ==
    IF curr = MODS /\ IsCommit(prev)
    THEN <<"git", "diff", "--cached", prev, "--", fname>>
    ELSE HistoryBuildDiffCmdBySide(prev, curr, fname)

\* A variant of HistoryBuildDiffCmd that passes two commits newer first.
HistoryBuildDiffCmdNewerFirst(prev, curr, fname) ==
    IF IsCommit(prev) /\ IsCommit(curr)
    THEN <<"git", "diff", curr, prev, "--", fname>>
    ELSE HistoryBuildDiffCmdBySide(prev, curr, fname)

\* HistoryList.on_key._build_diff_cmd(prev, curr, fname): prev is the older
\* side, curr the newer.
HistoryBuildDiffCmd(prev, curr, fname) ==
    IF (IsPseudo(prev) \/ IsPseudo(curr))
       /\ ((prev = STAGED /\ curr = MODS) \/ (prev = MODS /\ curr = STAGED))
        THEN <<"git", "diff", "--", fname>>
    ELSE IF (IsPseudo(prev) \/ IsPseudo(curr)) /\ curr = MODS /\ IsCommit(prev)
        THEN <<"git", "diff", prev, "--", fname>>
    ELSE IF (IsPseudo(prev) \/ IsPseudo(curr)) /\ prev = MODS /\ IsCommit(curr)
        THEN <<"git", "diff", curr, "--", fname>>
    ELSE IF (IsPseudo(prev) \/ IsPseudo(curr)) /\ curr = STAGED /\ IsCommit(prev)
        THEN <<"git", "diff", "--cached", prev, "--", fname>>
    ELSE IF (IsPseudo(prev) \/ IsPseudo(curr)) /\ prev = STAGED /\ IsCommit(curr)
        THEN <<"git", "diff", "--cached", curr, "--", fname>>
    ELSE IF (IsPseudo(prev) \/ IsPseudo(curr)) /\ curr = STAGED /\ prev = None
        THEN <<"git", "diff", "--cached", "--", fname>>
    ELSE IF (IsPseudo(prev) \/ IsPseudo(curr)) /\ curr = MODS /\ prev = None
        THEN <<"git", "diff", "--", fname>>
    ELSE IF Truthy(prev) /\ Truthy(curr)
        THEN <<"git", "diff", prev, curr, "--", fname>>
    ELSE <<"git", "diff", "--", fname>>

\* DiffList.on_key._build_diff_cmd(prev, curr, fname), used when c/C
\* re-renders the diff.
DiffBuildDiffCmd(prev, curr, fname) ==
    IF prev = STAGED /\ curr = MODS
        THEN <<"git", "diff", "HEAD", "--", fname>>
    ELSE IF curr = MODS /\ prev # None
        THEN <<"git", "diff", prev, "--", fname>>
    ELSE IF curr = STAGED /\ prev # None
        THEN <<"git", "diff", "--cached", prev, "--", fname>>
    ELSE IF curr = STAGED /\ prev = None
        THEN <<"git", "diff", "--cached", "--", fname>>
    ELSE IF curr = MODS /\ prev = None
        THEN <<"git", "diff", "--", fname>>
    ELSE IF Truthy(prev) /\ Truthy(curr)
        THEN <<"git", "diff", prev, curr, "--", fname>>
    ELSE <<"git", "diff", "--", fname>>

(***************************************************************************)
(* Marks: HistoryList.toggle_check_current.                                *)
(***************************************************************************)
\* A variant of ToggleCheckCurrent that leaves the previous mark in place.
ToggleCheckCurrentKeepsPrevious(nodes, index) ==
    LET idx == IF index = NoIndex THEN 0 ELSE index
    IN  IF nodes = <<>> \/ idx < 0 \/ idx >= Len(nodes) THEN nodes
        ELSE [nodes EXCEPT ![idx + 1].checked = ~nodes[idx + 1].checked]

\* The items after `m` on the item at `index`.
ToggleCheckCurrent(nodes, index) ==
    LET idx == IF index = NoIndex THEN 0 ELSE index
    IN  IF nodes = <<>> \/ idx < 0 \/ idx >= Len(nodes) THEN nodes
        ELSE LET prev_checked == CheckedIdx(nodes)
             IN  IF prev_checked = idx
                 THEN [nodes EXCEPT ![idx + 1].checked = FALSE]
                 ELSE [i \in 1..Len(nodes) |->
                          IF i = idx + 1 THEN [nodes[i] EXCEPT !.checked = TRUE]
                          ELSE IF i = prev_checked + 1
                              THEN [nodes[i] EXCEPT !.checked = FALSE]
                          ELSE nodes[i]]

(***************************************************************************)
(* State.                                                                  *)
(*                                                                         *)
(* app      the attributes of GitHistoryTool                               *)
(* right1   the History list (#right1): its items, index, _filename and    *)
(*          styles.display                                                 *)
(* right2   the Diff list (#right2): the header and the lines it shows,    *)
(*          its index, scroll_y and styles.display, and the (scroll_y,     *)
(*          index) pairs of the restore_state callbacks that wait for the  *)
(*          next refresh, oldest first; `page` the moves PageUp and        *)
(*          PageDown have scheduled and that have not set the index yet,   *)
(*          oldest first                                                   *)
(* left     the Files list (#left): the directory it lists (self.path),    *)
(*          the _filename of its items, its index, and the highlight       *)
(*          callbacks that wait for the next refresh, oldest first         *)
(* run      "init" once __init__ has returned, "running" once on_mount     *)
(*          has run, "terminated" once the application has exited          *)
(* columns  styles.width of #left-column, #right1-column, #right2-column   *)
(* focused  the widget that has the focus                                  *)
(* right3   the Help list (#right3): styles.width of #right3-column, its   *)
(*          styles.display, and the widget the restore_focus callback that *)
(*          is waiting for the next refresh will focus, None when no       *)
(*          callback is waiting                                            *)
(* modal    the message of the _TBDModal on the screen stack, None when    *)
(*          there is none                                                  *)
(* issued   the git diff command last handed to subprocess.run; <<>> when  *)
(*          there was none                                                 *)
(* call, result   the arguments and the return value of one call of a      *)
(*          function of the program, for the specifications that check     *)
(*          the functions on their own                                     *)
(***************************************************************************)
VARIABLES app, left, right1, right2, right3, columns, focused, modal, issued, run, call, result

navVars == <<app, left, right1, right2, right3, columns, focused, modal, issued, run>>
callVars == <<call, result>>
vars == <<app, left, right1, right2, right3, columns, focused, modal, issued, run, call, result>>

(***************************************************************************)
(* The environment: the repository and what the git queries return.        *)
(***************************************************************************)
\* The root of the repository and the directory the program is started in.
RepoRoot == <<"r">>
\* The files of that directory.
FileNames == {"f", "g"}
\* Short dates (%ad).
Dates == {"d1"}

\* A line of git log's output, `date hash subject`.
LogLine(hash) == <<"d1", hash, "s">>

\* The lines git log can print: one per commit, and a line that does not
\* have that shape.
LogLines == {LogLine(h) : h \in HexTokens} \cup {<<"garbled">>}

SeqsUpTo(S, n) == UNION {[1..k -> S] : k \in 0..n}

\* What git log prints for all of the repository, newest first.
RepoLog == <<LogLine("c2"), <<"garbled">>, LogLine("c1")>>

\* s is t with some of its elements left out.
RECURSIVE IsSubSeq(_, _)
IsSubSeq(s, t) ==
    IF s = <<>> THEN TRUE
    ELSE IF t = <<>> THEN FALSE
    ELSE IF Head(s) = Head(t) THEN IsSubSeq(Tail(s), Tail(t))
    ELSE IsSubSeq(s, Tail(t))

\* What git log can print for a file of the repository: the lines of the
\* commits that touch it, at most MaxLog of them.
Logs == {out \in SeqsUpTo(LogLines, MaxLog) : IsSubSeq(out, RepoLog)}

\* The file g has no commit yet.
LogsOf(item_name) == IF item_name = "g" THEN {<<>>} ELSE Logs

\* What git diff prints: nothing, or the lines of a diff.
DiffOuts == {<<>>, <<"-a", "+b">>}

\* What the modification times can be: unreadable, or a date.
Mtimes == {None} \cup Dates

\* The status flags build_repo_cache finds: f is staged and then edited
\* again, g is new and staged.
NavStatus ==
    {[n \in FileNames |->
        IF n = "f" THEN {"INDEX_MODIFIED", "WT_MODIFIED"} ELSE {"INDEX_NEW"}]}

\* repo.status(): only the paths with a status are in the map.
StatusMapOf(flagsOf) ==
    LET dirty == {n \in DOMAIN flagsOf : flagsOf[n] # {}}
    IN  [rel \in {<<n>> : n \in dirty} |-> flagsOf[rel[1]]]

(***************************************************************************)
(* The environment: the directories the Files list can show.               *)
(***************************************************************************)
\* A directory of the repository, and a directory outside it.
SubDir == <<"r", "d">>
OutsideDir == <<"o">>

\* The .git directory of the repository.
GitDir == <<"r", ".git">>

\* os.path.isdir: the root, the directory o, and the repository r with the
\* directories .git (shown empty), a, d and d/e (empty).
Dirs ==
    {<<>>, OutsideDir, RepoRoot, GitDir, <<"r", "a">>, SubDir,
     <<"r", "d", "e">>}

\* sorted(os.listdir(path)) of a directory without its .git entry: every
\* directory that has files has f, and r has g too.
Entries(path) ==
    CASE path = <<>>       -> <<"o", "r">>
      [] path = OutsideDir -> <<"f">>
      [] path = RepoRoot   -> <<"a", "d", "f", "g">>
      [] path = SubDir     -> <<"e", "f">>
      [] OTHER             -> <<>>

\* os.listdir(path) returns: path is a directory, and it is not r/a, which
\* the user has no permission to read.
Readable(path) == path \in Dirs \ {<<"r", "a">>}

\* os.path.isdir(os.path.join(path, ".git"))
HasGitDir(path) == path = RepoRoot

\* os.path.isfile(path)
IsFile(path) ==
    /\ path # <<>>
    /\ path \notin Dirs
    /\ \E i \in 1..Len(Entries(Parent(path))) :
           Entries(Parent(path))[i] = Basename(path)

\* A path that names nothing.
MissingPath == <<"r", "x">>

(***************************************************************************)
(* Layout: the on_focus handlers.                                          *)
(***************************************************************************)
Shown == "shown"
Hidden == "none"

\* FileList.on_focus
FilesLayout == [left |-> "100%", right1 |-> "0%", right2 |-> "0%"]
\* HistoryList.on_focus
HistoryLayout == [left |-> "25%", right1 |-> "75%", right2 |-> "0%"]
\* DiffList.on_focus, exit_diff_fullscreen
DiffLayout == [left |-> "5%", right1 |-> "15%", right2 |-> "80%"]
\* enter_diff_fullscreen
FullscreenLayout == [left |-> "0%", right1 |-> "0%", right2 |-> "100%"]
\* GitHistoryTool.on_key, the help keys: the three columns give all of the
\* width to the help column.
HelpLayout == [left |-> "0%", right1 |-> "0%", right2 |-> "0%"]

\* What the on_focus handler of a list sets when the list takes the focus:
\* the widths of the columns and styles.display of the History and the Diff
\* list.  DiffList.on_focus does not read app.diff_fullscreen for them.
OnFocus(target) ==
    IF target = "left"
    THEN [columns |-> FilesLayout, right1 |-> Hidden, right2 |-> Hidden]
    ELSE IF target = "right1"
    THEN [columns |-> HistoryLayout, right1 |-> Shown, right2 |-> Hidden]
    ELSE [columns |-> DiffLayout, right1 |-> Shown, right2 |-> Shown]

(***************************************************************************)
(* Init: the state once on_mount has run for a directory path.             *)
(***************************************************************************)
AppInit(avail, root, path, status_map) ==
    [repo_available    |-> avail,
     repo_root         |-> root,
     path              |-> path,
     repo_status_map   |-> status_map,
     colorize_diff     |-> TRUE,
     current_commit_sha |-> None,
     current_prev_sha  |-> None,
     current_diff_file |-> None,
     diff_fullscreen   |-> FALSE,
     saved_column_state |-> <<>>,
     repo_index_set    |-> {}]

Right1Init == [nodes |-> <<>>, index |-> NoIndex, filename |-> None,
               display |-> Hidden]

Right2Init == [header |-> <<>>, lines |-> <<>>, colored |-> FALSE,
               index |-> NoIndex, scroll_y |-> 0, restore_state |-> <<>>,
               page |-> <<>>,
               display |-> Hidden]

Right3Init == [column |-> "1fr", display |-> Hidden, restore_focus |-> None]

NoCall == [fn |-> "none"]

\* The Files list as compose leaves it.  `nav` is not an attribute of the
\* program: it records the latest call of set_path, <<"mount">> from
\* on_mount, <<"child", name>> from Right on the directory `name`,
\* <<"parent", name>> from Left on `..` in the directory `name`.
LeftInit == [path |-> <<>>, items |-> <<>>, index |-> NoIndex,
             callbacks |-> <<>>, nav |-> <<"mount">>]

\* The callbacks the Files list hands to call_after_refresh.
HighlightTop == [fn |-> "_highlight_top", name |-> None]
HighlightFilename(name) == [fn |-> "_highlight_filename", name |-> name]

\* A variant of ListedItems that lists `..` in every directory.
ListedItemsWithParent(path) ==
    IF ~Readable(path) THEN <<None>> ELSE <<"..">> \o Entries(path)

\* The _filename of the items set_path appends: the one item of the error
\* message, which has none, when the directory cannot be read; else `..`,
\* unless the directory holds .git, and the entries in sorted order.
ListedItems(path) ==
    IF ~Readable(path) THEN <<None>>
    ELSE (IF HasGitDir(path) THEN <<>> ELSE <<"..">>) \o Entries(path)

\* FileList.set_path: clear() leaves no item highlighted; _highlight_top is
\* handed to call_after_refresh unless the directory cannot be read.
SetPath(list, path) ==
    [list EXCEPT !.path = path,
                 !.items = ListedItems(path),
                 !.index = NoIndex,
                 !.callbacks = IF Readable(path) THEN Append(@, HighlightTop)
                               ELSE @]

\* The Files list of directory path once its highlight callback has run.
Listed(path) ==
    [SetPath(LeftInit, path) EXCEPT !.index = 0, !.callbacks = <<>>]

NavInit(a) ==
    /\ app = a
    /\ left = Listed(a.path)
    /\ run = "running"
    /\ right1 = Right1Init
    /\ right2 = Right2Init
    /\ right3 = Right3Init
    /\ columns = FilesLayout
    /\ focused = "left"
    /\ modal = None
    /\ issued = <<>>

\* build_repo_cache found the repository and the status of its files.
Apps ==
    {[AppInit(TRUE, RepoRoot, RepoRoot, StatusMapOf(flagsOf))
         EXCEPT !.repo_index_set = {<<n>> : n \in FileNames}] :
        flagsOf \in NavStatus}

Init ==
    /\ \E a \in Apps : NavInit(a)
    /\ call = NoCall
    /\ result = <<>>

(***************************************************************************)
(* Files pane: FileList.on_key.                                            *)
(***************************************************************************)
\* The application is running: on_mount has run and the application has
\* not exited.
Running == run = "running"

FilesKey == Running /\ focused = "left" /\ modal = None

\* A variant of FilesRightFile that stays in the Files pane when there is no
\* history to show: the list is rebuilt, hidden, and holds the one
\* `No git history` item.
FilesRightFileBlocksOnSentinel(item_name, out, index_mtime, file_mtime) ==
    LET nodes == Assemble(app, item_name, out, index_mtime, file_mtime)
        blocked == Len(nodes) = 1 /\ IsSentinelItem(nodes[1])
    IN  /\ FilesKey
        /\ right1' = [nodes    |-> nodes,
                      index    |-> 0,
                      filename |-> item_name,
                      display  |-> IF blocked THEN Hidden ELSE Shown]
        /\ right2' = [right2 EXCEPT !.display = Hidden]
        /\ columns' = IF blocked THEN columns ELSE HistoryLayout
        /\ focused' = IF blocked THEN focused ELSE "right1"
        /\ UNCHANGED <<app, modal, issued, right3, left, run, callVars>>

\* A variant of FilesRightFile that does not clear the History list: the
\* items of the file are appended to the items the list holds.
FilesRightFileAppends(item_name, out, index_mtime, file_mtime) ==
    /\ FilesKey
    /\ right1' = [nodes    |-> right1.nodes \o
                               Assemble(app, item_name, out, index_mtime,
                                        file_mtime),
                  index    |-> 0,
                  filename |-> item_name,
                  display  |-> Shown]
    /\ right2' = [right2 EXCEPT !.display = Hidden]
    /\ columns' = HistoryLayout
    /\ focused' = "right1"
    /\ UNCHANGED <<app, modal, issued, right3, left, run, callVars>>

\* A variant of FilesRightFile that keeps the marks of the History list: an
\* item of the new list is checked when the item it replaces was.
FilesRightFileKeepsMarks(item_name, out, index_mtime, file_mtime) ==
    LET nodes == Assemble(app, item_name, out, index_mtime, file_mtime)
    IN  /\ FilesKey
        /\ right1' = [nodes    |-> [i \in 1..Len(nodes) |->
                                       [nodes[i] EXCEPT !.checked =
                                           /\ i <= Len(right1.nodes)
                                           /\ right1.nodes[i].checked]],
                      index    |-> 0,
                      filename |-> item_name,
                      display  |-> Shown]
        /\ right2' = [right2 EXCEPT !.display = Hidden]
        /\ columns' = HistoryLayout
        /\ focused' = "right1"
        /\ UNCHANGED <<app, modal, issued, right3, left, run, callVars>>

\* Right on the file item_name, git log prints `out`: the History list is
\* rebuilt and takes the focus (HistoryList.on_focus sets the layout).
FilesRightFile(item_name, out, index_mtime, file_mtime) ==
    /\ FilesKey
    /\ right1' = [nodes    |-> Assemble(app, item_name, out, index_mtime,
                                        file_mtime),
                  index    |-> 0,
                  filename |-> item_name,
                  display  |-> Shown]
    /\ right2' = [right2 EXCEPT !.display = Hidden]
    /\ columns' = HistoryLayout
    /\ focused' = "right1"
    /\ UNCHANGED <<app, modal, issued, right3, left, run, callVars>>

\* A variant of FilesRightFileFails that clears the History list before it
\* runs the query.
FilesRightFileFailsClearsHistory ==
    /\ FilesKey
    /\ modal' = "log query failed"
    /\ right1' = [right1 EXCEPT !.nodes = <<>>, !.index = NoIndex]
    /\ UNCHANGED <<app, right2, columns, focused, issued, right3, left, run, callVars>>

\* Right on a file, subprocess.run raises: the exception is shown in a
\* modal and nothing else changes.
FilesRightFileFails ==
    /\ FilesKey
    /\ modal' = "log query failed"
    /\ UNCHANGED <<app, right1, right2, columns, focused, issued, right3, left, run, callVars>>

\* The _filename of the highlighted item of the Files list.
HighlightedName == left.items[left.index + 1]

\* Up and Down: ListView moves the highlight within the list.
FilesUp ==
    /\ FilesKey
    /\ left.index > 0
    /\ left' = [left EXCEPT !.index = left.index - 1]
    /\ UNCHANGED <<app, right1, right2, right3, columns, focused, modal, issued, run, callVars>>

FilesDown ==
    /\ FilesKey
    /\ left.index # NoIndex
    /\ left.index < Len(left.items) - 1
    /\ left' = [left EXCEPT !.index = left.index + 1]
    /\ UNCHANGED <<app, right1, right2, right3, columns, focused, modal, issued, run, callVars>>

\* A variant of FilesRightDir that leaves the path of the application as
\* it is.
FilesRightDirKeepsAppPath ==
    /\ FilesKey
    /\ left.index # NoIndex
    /\ HighlightedName \notin {None, ".."}
    /\ Join(left.path, HighlightedName) \in Dirs
    /\ Len(left.callbacks) < MaxCallbacks
    /\ left' = [SetPath(left, Join(left.path, HighlightedName)) EXCEPT
                   !.index = 0,
                   !.nav = <<"child", HighlightedName>>]
    /\ UNCHANGED <<app, right1, right2, right3, columns, focused, modal, issued, run, callVars>>

\* Right on a directory other than `..`: set_path lists it, the highlight
\* is set to the first item, and the application follows.
FilesRightDir ==
    /\ FilesKey
    /\ left.index # NoIndex
    /\ HighlightedName \notin {None, ".."}
    /\ Join(left.path, HighlightedName) \in Dirs
    /\ Len(left.callbacks) < MaxCallbacks
    /\ left' = [SetPath(left, Join(left.path, HighlightedName)) EXCEPT
                   !.index = 0,
                   !.nav = <<"child", HighlightedName>>]
    /\ app' = [app EXCEPT !.path = Join(left.path, HighlightedName)]
    /\ UNCHANGED <<right1, right2, right3, columns, focused, modal, issued, run, callVars>>

\* Right on `..`: the modal with the default message.
FilesRightParent ==
    /\ FilesKey
    /\ left.index # NoIndex
    /\ HighlightedName = ".."
    /\ modal' = "TBD"
    /\ UNCHANGED <<app, left, right1, right2, right3, columns, focused, issued, run, callVars>>

\* Left on `..`: set_path lists the parent, _highlight_filename is handed
\* to call_after_refresh with the name of the directory that was listed,
\* and the application follows.
FilesLeftParent ==
    /\ FilesKey
    /\ left.index # NoIndex
    /\ HighlightedName = ".."
    /\ Parent(left.path) # left.path
    /\ Len(left.callbacks) + 2 <= MaxCallbacks
    /\ left' = [SetPath(left, Parent(left.path)) EXCEPT
                   !.callbacks =
                       Append(@, HighlightFilename(Basename(left.path))),
                   !.nav = <<"parent", Basename(left.path)>>]
    /\ app' = [app EXCEPT !.path = Parent(left.path)]
    /\ UNCHANGED <<right1, right2, right3, columns, focused, modal, issued, run, callVars>>

\* Left on `..` in the root of the file system.
FilesLeftAtRoot ==
    /\ FilesKey
    /\ left.index # NoIndex
    /\ HighlightedName = ".."
    /\ Parent(left.path) = left.path
    /\ modal' = "Already at root"
    /\ UNCHANGED <<app, left, right1, right2, right3, columns, focused, issued, run, callVars>>

\* The index of the first item whose _filename is name, 0 when there is
\* none.
IndexOfFilename(items, name) ==
    LET found == {i \in 1..Len(items) : items[i] = name}
    IN  IF found = {} THEN 0
        ELSE (CHOOSE i \in found : \A j \in found : i <= j) - 1

\* A variant of RunHighlight in which _highlight_filename leaves the
\* highlight where _highlight_top has put it.
RunHighlightTopOnly(list, callback) ==
    [list EXCEPT !.index = IF list.items # <<>> THEN 0 ELSE @]

\* _highlight_top and _highlight_filename.
RunHighlight(list, callback) ==
    IF callback.fn = "_highlight_top"
    THEN [list EXCEPT !.index = IF list.items # <<>> THEN 0 ELSE @]
    ELSE [list EXCEPT !.index =
             IF list.items = <<>> THEN NoIndex
             ELSE IndexOfFilename(list.items, callback.name)]

\* The refresh has come: the callback that has waited longest runs.
FilesRunCallback ==
    /\ Running
    /\ left.callbacks # <<>>
    /\ left' = [RunHighlight(left, Head(left.callbacks)) EXCEPT
                   !.callbacks = Tail(left.callbacks)]
    /\ UNCHANGED <<app, right1, right2, right3, columns, focused, modal, issued, run, callVars>>

(***************************************************************************)
(* History pane: HistoryList.on_key.                                       *)
(***************************************************************************)
HistoryKey == Running /\ focused = "right1" /\ modal = None

\* Up and Down: ListView moves the highlight within the list.
HistoryUp ==
    /\ HistoryKey
    /\ right1.index > 0
    /\ right1' = [right1 EXCEPT !.index = right1.index - 1]
    /\ UNCHANGED <<app, right2, columns, focused, modal, issued, right3, left, run, callVars>>

HistoryDown ==
    /\ HistoryKey
    /\ right1.index < Len(right1.nodes) - 1
    /\ right1' = [right1 EXCEPT !.index = right1.index + 1]
    /\ UNCHANGED <<app, right2, columns, focused, modal, issued, right3, left, run, callVars>>

\* m / M
HistoryMark ==
    /\ HistoryKey
    /\ right1' = [right1 EXCEPT
                     !.nodes = ToggleCheckCurrent(right1.nodes, right1.index)]
    /\ UNCHANGED <<app, right2, columns, focused, modal, issued, right3, left, run, callVars>>

\* Left: the Files list takes the focus (FileList.on_focus).
HistoryLeft ==
    /\ HistoryKey
    /\ focused' = "left"
    /\ columns' = FilesLayout
    /\ right1' = [right1 EXCEPT !.display = Hidden]
    /\ right2' = [right2 EXCEPT !.display = Hidden]
    /\ UNCHANGED <<app, modal, issued, right3, left, run, callVars>>

\* A variant of PairHashes that asks for the hash of the newer item only.
PairHashesNewerOnly(nodes, pair) ==
    LET current_hash  == nodes[pair.i_newer + 1].hash
        previous_hash == nodes[pair.i_older + 1].hash
    IN  IF Truthy(current_hash)
        THEN [current |-> current_hash, previous |-> previous_hash]
        ELSE [current |-> None, previous |-> None]

\* The hashes of the pair, or None for both when one of the two items has
\* no hash and its text does not parse.
PairHashes(nodes, pair) ==
    LET current_hash  == nodes[pair.i_newer + 1].hash
        previous_hash == nodes[pair.i_older + 1].hash
        m1 == ParseHash(nodes[pair.i_newer + 1].text)
        m2 == ParseHash(nodes[pair.i_older + 1].text)
    IN  IF Truthy(current_hash) /\ Truthy(previous_hash)
        THEN [current |-> current_hash, previous |-> previous_hash]
        ELSE IF m1 = None \/ m2 = None
        THEN [current |-> None, previous |-> None]
        ELSE [current |-> m1, previous |-> m2]

\* A variant of HistoryRightRefused that empties the Diff list and forgets
\* the cached request before it looks for the pair.
HistoryRightRefusedClearsDiff ==
    /\ HistoryKey
    /\ ~SelectPair(right1.nodes, right1.index).ok
    /\ modal' = SelectPair(right1.nodes, right1.index).notice
    /\ right2' = [right2 EXCEPT !.header = <<>>, !.lines = <<>>]
    /\ app' = [app EXCEPT !.current_commit_sha = None,
                          !.current_prev_sha = None,
                          !.current_diff_file = None]
    /\ UNCHANGED <<right1, columns, focused, issued, right3, left, run, callVars>>

\* Right, refused with a modal: no pair, no hashes, or no filename.
HistoryRightRefused ==
    /\ HistoryKey
    /\ LET pair == SelectPair(right1.nodes, right1.index)
       IN  \/ /\ ~pair.ok
              /\ modal' = pair.notice
           \/ /\ pair.ok
              /\ PairHashes(right1.nodes, pair).current = None
              /\ modal' = "Could not parse hashes"
           \/ /\ pair.ok
              /\ PairHashes(right1.nodes, pair).current # None
              /\ ~Truthy(right1.filename)
              /\ modal' = "Unknown filename for history"
    /\ UNCHANGED <<app, right1, right2, columns, focused, issued, right3, left, run, callVars>>

\* The request Right caches and the command it builds for it.
SelectedRequest ==
    LET pair   == SelectPair(right1.nodes, right1.index)
        hashes == PairHashes(right1.nodes, pair)
    IN  [prev |-> hashes.previous, curr |-> hashes.current,
         fname |-> right1.filename]

HistorySelects ==
    /\ HistoryKey
    /\ SelectPair(right1.nodes, right1.index).ok
    /\ PairHashes(right1.nodes,
                  SelectPair(right1.nodes, right1.index)).current # None
    /\ Truthy(right1.filename)

\* Right, git diff prints diff_out: the request is cached, the Diff list
\* shows the header and the lines and takes the focus (DiffList.on_focus).
HistoryRight(diff_out) ==
    /\ HistorySelects
    /\ LET req == SelectedRequest
       IN  /\ app' = [app EXCEPT !.current_commit_sha = req.curr,
                                 !.current_prev_sha = req.prev,
                                 !.current_diff_file = req.fname]
           /\ issued' = HistoryBuildDiffCmd(req.prev, req.curr, req.fname)
           /\ right2' = [header  |-> <<req.prev, req.curr>>,
                         lines   |-> diff_out,
                         colored |-> app.colorize_diff,
                         index   |-> 0,
                         scroll_y |-> 0,
                         restore_state |-> right2.restore_state,
                         page    |-> right2.page,
                         display |-> Shown]
    /\ right1' = [right1 EXCEPT !.display = Shown]
    /\ columns' = DiffLayout
    /\ focused' = "right2"
    /\ UNCHANGED <<modal, right3, left, run, callVars>>

\* A variant of HistoryRightFails that gives the focus to the Diff list,
\* which shows what it showed before.
HistoryRightFailsShowsDiff ==
    /\ HistorySelects
    /\ LET req == SelectedRequest
       IN  /\ app' = [app EXCEPT !.current_commit_sha = req.curr,
                                 !.current_prev_sha = req.prev,
                                 !.current_diff_file = req.fname]
           /\ issued' = HistoryBuildDiffCmd(req.prev, req.curr, req.fname)
    /\ modal' = "diff query failed"
    /\ focused' = "right2"
    /\ columns' = DiffLayout
    /\ right2' = [right2 EXCEPT !.display = Shown]
    /\ UNCHANGED <<right1, right3, left, run, callVars>>

\* Right, subprocess.run raises: the request is cached already, the
\* exception is shown in a modal.
HistoryRightFails ==
    /\ HistorySelects
    /\ LET req == SelectedRequest
       IN  /\ app' = [app EXCEPT !.current_commit_sha = req.curr,
                                 !.current_prev_sha = req.prev,
                                 !.current_diff_file = req.fname]
           /\ issued' = HistoryBuildDiffCmd(req.prev, req.curr, req.fname)
    /\ modal' = "diff query failed"
    /\ UNCHANGED <<right1, right2, columns, focused, right3, left, run, callVars>>

(***************************************************************************)
(* Diff pane: DiffList.on_key, enter_diff_fullscreen, exit_diff_fullscreen.*)
(***************************************************************************)
DiffKey == Running /\ focused = "right2" /\ modal = None

\* A variant of DiffLeft that goes on to the History list after leaving
\* fullscreen.
DiffLeftFallsThrough ==
    /\ DiffKey
    /\ focused' = "right1"
    /\ columns' = HistoryLayout
    /\ right1' = [right1 EXCEPT !.display = Shown]
    /\ right2' = [right2 EXCEPT !.display = Hidden]
    /\ app' = [app EXCEPT !.diff_fullscreen = FALSE]
    /\ UNCHANGED <<modal, issued, right3, left, run, callVars>>

\* A variant of DiffLeft that gives the focus to the History list without
\* asking whether the Diff list is in fullscreen.
DiffLeftIgnoresFullscreen ==
    /\ DiffKey
    /\ focused' = "right1"
    /\ columns' = HistoryLayout
    /\ right1' = [right1 EXCEPT !.display = Shown]
    /\ right2' = [right2 EXCEPT !.display = Hidden]
    /\ UNCHANGED <<app, modal, issued, right3, left, run, callVars>>

\* Left: leaves fullscreen, or gives the focus to the History list
\* (HistoryList.on_focus).
DiffLeft ==
    /\ DiffKey
    /\ \/ /\ app.diff_fullscreen
          /\ app' = [app EXCEPT !.diff_fullscreen = FALSE]
          /\ columns' = DiffLayout
          /\ right1' = [right1 EXCEPT !.display = Shown]
          /\ right2' = [right2 EXCEPT !.display = Shown]
          /\ UNCHANGED focused
       \/ /\ ~app.diff_fullscreen
          /\ focused' = "right1"
          /\ columns' = HistoryLayout
          /\ right1' = [right1 EXCEPT !.display = Shown]
          /\ right2' = [right2 EXCEPT !.display = Hidden]
          /\ UNCHANGED app
    /\ UNCHANGED <<modal, issued, right3, left, run, callVars>>

\* f / F: enters or leaves fullscreen.
DiffFullscreen ==
    /\ DiffKey
    /\ \/ /\ app.diff_fullscreen
          /\ app' = [app EXCEPT !.diff_fullscreen = FALSE]
          /\ columns' = DiffLayout
          /\ right1' = [right1 EXCEPT !.display = Shown]
          /\ right2' = [right2 EXCEPT !.display = Shown]
       \/ /\ ~app.diff_fullscreen
          /\ right2.display # Hidden
          /\ app' = [app EXCEPT !.diff_fullscreen = TRUE]
          /\ columns' = FullscreenLayout
          /\ right1' = [right1 EXCEPT !.display = Hidden]
          /\ right2' = [right2 EXCEPT !.display = Shown]
    /\ UNCHANGED <<focused, modal, issued, right3, left, run, callVars>>

\* The items of the Diff list: the header, and the lines of the diff or
\* the one line that says there is no diff.
DiffLen(lines) == 1 + Max(1, Len(lines))

\* The lines of the Diff list that fit on the screen.
ViewHeight == 2

\* The largest scroll offset of a list of that many lines.
MaxScrollY(lines) == Max(0, DiffLen(lines) - ViewHeight)

\* The scroll offset once the list has scrolled, if it has to, to show the
\* highlighted item.
ScrollToShow(scroll_y, index) ==
    IF index < scroll_y THEN index
    ELSE IF index >= scroll_y + ViewHeight THEN index - ViewHeight + 1
    ELSE scroll_y

\* Up and Down: ListView moves the highlight within the list and scrolls
\* to it.
DiffUp ==
    /\ DiffKey
    /\ right2.index > 0
    /\ right2' = [right2 EXCEPT
                     !.index = right2.index - 1,
                     !.scroll_y = ScrollToShow(right2.scroll_y,
                                               right2.index - 1)]
    /\ UNCHANGED <<app, right1, columns, focused, modal, issued, right3, left, run, callVars>>

DiffDown ==
    /\ DiffKey
    /\ right2.index # NoIndex
    /\ right2.index < DiffLen(right2.lines) - 1
    /\ right2' = [right2 EXCEPT
                     !.index = right2.index + 1,
                     !.scroll_y = ScrollToShow(right2.scroll_y,
                                               right2.index + 1)]
    /\ UNCHANGED <<app, right1, columns, focused, modal, issued, right3, left, run, callVars>>

\* restore_state runs after the refresh, in its turn among the callbacks
\* of the list: scroll_y and index are set to the saved values, which the
\* list limits to its range; the index is left alone when there was no
\* highlight to save.
DiffRestoreState ==
    /\ Running
    /\ right2.restore_state # <<>>
    /\ \A i \in 1..Len(right2.page) :
           right2.page[i].scrolled \/ right2.page[i].after > 0
    /\ LET saved == Head(right2.restore_state)
           scroll_y == Min(saved.scroll_y, MaxScrollY(right2.lines))
           index == IF saved.index # NoIndex
                    THEN Min(saved.index, DiffLen(right2.lines) - 1)
                    ELSE right2.index
       IN  right2' = [right2 EXCEPT
                         !.scroll_y = IF index # NoIndex
                                      THEN ScrollToShow(scroll_y, index)
                                      ELSE scroll_y,
                         !.index = index,
                         !.restore_state = Tail(right2.restore_state),
                         !.page = [i \in 1..Len(right2.page) |->
                                      [right2.page[i] EXCEPT
                                          !.after = Max(0, @ - 1)]]]
    /\ UNCHANGED <<app, right1, columns, focused, modal, issued, right3, left, run, callVars>>

\* c / C, git diff prints diff_out: the colorization flag is toggled, the
\* cached request is run again and rendered into the cleared list, and
\* restore_state waits for the next refresh with the scroll offset and
\* the index the list had.
DiffColorize(diff_out) ==
    /\ DiffKey
    /\ Len(right2.restore_state) < MaxPending
    /\ app' = [app EXCEPT !.colorize_diff = ~app.colorize_diff]
    /\ IF Truthy(app.current_commit_sha) /\ Truthy(app.current_prev_sha)
          /\ Truthy(app.current_diff_file)
       THEN /\ issued' = DiffBuildDiffCmd(app.current_prev_sha,
                                          app.current_commit_sha,
                                          app.current_diff_file)
            /\ right2' = [right2 EXCEPT
                             !.header = <<app.current_prev_sha,
                                          app.current_commit_sha>>,
                             !.lines = diff_out,
                             !.colored = ~app.colorize_diff,
                             !.index = NoIndex,
                             !.scroll_y = 0,
                             !.restore_state =
                                 Append(@, [scroll_y |-> right2.scroll_y,
                                            index    |-> right2.index])]
       ELSE UNCHANGED <<issued, right2>>
    /\ UNCHANGED <<right1, columns, focused, modal, right3, left, run, callVars>>

\* PageUp and PageDown: the index to move to is computed from the index
\* the list has now, half a screen away, and scroll_to_position waits for
\* the next refresh with it, after the restore_state callbacks that wait
\* already (`after` counts them).
DiffPage(key) ==
    /\ DiffKey
    /\ Len(right2.page) < MaxPages
    /\ LET current_index == IF right2.index = NoIndex THEN 0 ELSE right2.index
           page_size == Max(1, ViewHeight \div 2)
           new_index == IF key = "pagedown"
                        THEN Min(current_index + page_size,
                                 DiffLen(right2.lines) - 1)
                        ELSE Max(current_index - page_size, 0)
       IN  right2' = [right2 EXCEPT
                         !.page = Append(@, [key           |-> key,
                                             current_index |-> current_index,
                                             new_index     |-> new_index,
                                             after         |->
                                                 Len(right2.restore_state),
                                             scrolled      |-> FALSE])]
    /\ UNCHANGED <<app, right1, columns, focused, modal, issued, right3, left, run, callVars>>

\* scroll_to_position runs after the refresh, for the oldest move that has
\* not scrolled yet: scroll_y goes to the target, within the range of the
\* list as it is now, and _finalize_highlight waits for its timer.
DiffScrollToPosition ==
    /\ Running
    /\ \E i \in 1..Len(right2.page) :
          /\ ~right2.page[i].scrolled
          /\ right2.page[i].after = 0
          /\ \A j \in 1..(i - 1) : right2.page[j].scrolled
          /\ LET move == right2.page[i]
                 target_scroll ==
                     IF move.key = "pagedown" THEN move.new_index
                     ELSE Max(0, move.new_index - ViewHeight + 1)
             IN  right2' = [right2 EXCEPT
                               !.scroll_y = Max(0, Min(target_scroll,
                                              MaxScrollY(right2.lines))),
                               !.page[i].scrolled = TRUE]
    /\ UNCHANGED <<app, right1, columns, focused, modal, issued, right3, left, run, callVars>>

\* The timer of the oldest move fires: _finalize_highlight sets the index
\* to new_index, which the list limits to its range, and the list scrolls
\* to show it.
DiffFinalizeHighlight ==
    /\ Running
    /\ right2.page # <<>>
    /\ Head(right2.page).scrolled
    /\ LET index == Min(Head(right2.page).new_index,
                        DiffLen(right2.lines) - 1)
       IN  right2' = [right2 EXCEPT
                         !.index = index,
                         !.scroll_y = IF index = NoIndex THEN @
                                      ELSE ScrollToShow(@, index),
                         !.page = Tail(right2.page)]
    /\ UNCHANGED <<app, right1, columns, focused, modal, issued, right3, left, run, callVars>>

(***************************************************************************)
(* _TBDModal.on_key: any key closes the modal.                             *)
(***************************************************************************)
ModalKey ==
    /\ Running
    /\ modal # None
    /\ modal' = None
    /\ UNCHANGED <<app, right1, right2, columns, focused, issued, right3, left, run, callVars>>

(***************************************************************************)
(* Help: GitHistoryTool.on_key for h, H and ?, and HelpList.on_key.        *)
(***************************************************************************)
\* What the help keys save: the widths of the three columns and
\* styles.display of the History and the Diff list.
Snapshot ==
    [left   |-> [width |-> columns.left],
     right1 |-> [width |-> columns.right1, display |-> right1.display],
     right2 |-> [width |-> columns.right2, display |-> right2.display]]

\* h, H or ? in one of the three panes (a modal keeps the key, and so does
\* the Help list): the layout is saved, the help column gets all of the
\* width and the Help list the focus.
Help ==
    /\ Running
    /\ focused \in {"left", "right1", "right2"} /\ modal = None
    /\ app' = [app EXCEPT !.saved_column_state = <<Snapshot>>]
    /\ columns' = HelpLayout
    /\ right3' = [right3 EXCEPT !.column = "100%", !.display = "block"]
    /\ focused' = "right3"
    /\ UNCHANGED <<right1, right2, modal, issued, left, run, callVars>>

\* A variant of FocusTarget that looks at the History list first.
FocusTargetHistoryFirst(saved_column_state) ==
    IF saved_column_state = <<>> THEN "left"
    ELSE IF saved_column_state[1].right1.display # Hidden THEN "right1"
    ELSE IF saved_column_state[1].right2.display # Hidden THEN "right2"
    ELSE "left"

\* The widget HelpList.on_key asks restore_focus to focus: the rightmost
\* list the saved state shows.
FocusTarget(saved_column_state) ==
    IF saved_column_state = <<>> THEN "left"
    ELSE IF saved_column_state[1].right2.display # Hidden THEN "right2"
    ELSE IF saved_column_state[1].right1.display # Hidden THEN "right1"
    ELSE "left"

\* Any key but the arrows, the page keys and q in the Help list: the help
\* column gets no width, the saved widths and displays are put back (only
\* the Files column when nothing was saved) and restore_focus waits for the
\* next refresh.
HelpDismiss ==
    /\ Running
    /\ focused = "right3" /\ modal = None
    /\ LET state == app.saved_column_state
       IN  /\ IF state # <<>>
              THEN /\ columns' = [left   |-> state[1].left.width,
                                  right1 |-> state[1].right1.width,
                                  right2 |-> state[1].right2.width]
                   /\ right1' = [right1 EXCEPT
                                    !.display = state[1].right1.display]
                   /\ right2' = [right2 EXCEPT
                                    !.display = state[1].right2.display]
              ELSE /\ columns' = FilesLayout
                   /\ UNCHANGED <<right1, right2>>
           /\ right3' = [right3 EXCEPT
                            !.column = "0%",
                            !.restore_focus = FocusTarget(state)]
    /\ UNCHANGED <<app, focused, modal, issued, left, run, callVars>>

\* restore_focus runs after the refresh: the list takes the focus and its
\* on_focus handler sets the layout.
HelpRestoreFocus ==
    /\ Running
    /\ right3.restore_focus # None
    /\ focused' = right3.restore_focus
    /\ LET layout == OnFocus(right3.restore_focus)
       IN  /\ columns' = layout.columns
           /\ right1' = [right1 EXCEPT !.display = layout.right1]
           /\ right2' = [right2 EXCEPT !.display = layout.right2]
    /\ right3' = [right3 EXCEPT !.restore_focus = None]
    /\ UNCHANGED <<app, modal, issued, left, run, callVars>>

(***************************************************************************)
(* Quit: the q and Q keys, from the on_key of the focused list to           *)
(* GitHistoryTool.on_key.                                                   *)
(***************************************************************************)
QuitKeys == {"q", "Q"}

\* A variant of Bubbled in which the Help list keeps the quit keys for
\* itself, as it does every key that does not scroll.
BubbledHelpDismisses(pane, key) ==
    IF pane = "right3" THEN None ELSE "q"

\* event.key of a quit key when the on_key of the list `pane` has returned,
\* None when that handler stopped the event.  The Files, History and Diff
\* lists put the key in lower case and return; the Help list returns.
Bubbled(pane, key) ==
    IF pane = "right3" THEN key ELSE "q"

\* q or Q while no modal is shown: no list stops the event, and
\* GitHistoryTool.on_key calls action_quit.
Quit(key) ==
    /\ Running
    /\ modal = None
    /\ Bubbled(focused, key) \in QuitKeys
    /\ run' = "terminated"
    /\ UNCHANGED <<app, left, right1, right2, right3, columns, focused, modal, issued, callVars>>

Next ==
    \/ \E item_name \in FileNames, mtime \in Dates :
          \E out \in LogsOf(item_name) :
              FilesRightFile(item_name, out, mtime, mtime)
    \/ FilesRightFileFails
    \/ HistoryUp
    \/ HistoryDown
    \/ HistoryMark
    \/ HistoryLeft
    \/ HistoryRightRefused
    \/ \E diff_out \in DiffOuts : HistoryRight(diff_out)
    \/ HistoryRightFails
    \/ DiffLeft
    \/ DiffFullscreen
    \/ ModalKey
    \/ Help
    \/ HelpDismiss
    \/ HelpRestoreFocus
    \/ \E key \in QuitKeys : Quit(key)

Spec == Init /\ [][Next]_vars

(***************************************************************************)
(* The Diff pane of the file f in a repository that does not change while  *)
(* the program runs: the highlight, the scroll offset and c / C.           *)
(***************************************************************************)
\* What git log prints for f.
DiffLog == <<LogLine("c2"), LogLine("c1")>>

\* What a git diff command prints: f has a staged change that the working
\* tree has undone, so that the working tree is the same as HEAD, whose
\* last commit of f is c2.
GitDiff(cmd) ==
    IF cmd \in {<<"git", "diff", "HEAD", "--", "f">>,
                <<"git", "diff", "c2", "--", "f">>}
    THEN <<>>
    ELSE <<"-a", "+b">>

DiffNext ==
    \/ FilesRightFile("f", DiffLog, "d1", "d1")
    \/ HistoryUp
    \/ HistoryDown
    \/ HistoryMark
    \/ HistoryLeft
    \/ HistoryRightRefused
    \/ HistorySelects /\ HistoryRight(GitDiff(HistoryBuildDiffCmd(
           SelectedRequest.prev, SelectedRequest.curr, SelectedRequest.fname)))
    \/ DiffLeft
    \/ DiffFullscreen
    \/ DiffUp
    \/ DiffDown
    \/ DiffColorize(GitDiff(DiffBuildDiffCmd(
           app.current_prev_sha, app.current_commit_sha, app.current_diff_file)))
    \/ DiffRestoreState
    \/ ModalKey

SpecDiff == Init /\ [][DiffNext]_vars

\* The diffs of the files f and g, with diff queries that fail and c / C:
\* the request that is cached and the diff that is on the screen.
CacheNext ==
    \/ \E item_name \in FileNames :
          FilesRightFile(item_name, DiffLog, "d1", "d1")
    \/ HistoryUp
    \/ HistoryDown
    \/ HistoryLeft
    \/ HistoryRightRefused
    \/ HistorySelects /\ HistoryRight(GitDiff(HistoryBuildDiffCmd(
           SelectedRequest.prev, SelectedRequest.curr, SelectedRequest.fname)))
    \/ HistoryRightFails
    \/ DiffLeft
    \/ DiffColorize(GitDiff(DiffBuildDiffCmd(
           app.current_prev_sha, app.current_commit_sha, app.current_diff_file)))
    \/ DiffRestoreState
    \/ ModalKey

SpecCache == Init /\ [][CacheNext]_vars

\* The same pane with PageUp and PageDown, whose moves are finished by a
\* callback and a timer, between which the other keys can be pressed.
PageNext ==
    \/ FilesRightFile("f", DiffLog, "d1", "d1")
    \/ HistoryDown
    \/ HistoryLeft
    \/ HistorySelects /\ HistoryRight(GitDiff(HistoryBuildDiffCmd(
           SelectedRequest.prev, SelectedRequest.curr, SelectedRequest.fname)))
    \/ DiffLeft
    \/ DiffUp
    \/ DiffDown
    \/ DiffColorize(GitDiff(DiffBuildDiffCmd(
           app.current_prev_sha, app.current_commit_sha, app.current_diff_file)))
    \/ DiffRestoreState
    \/ \E key \in {"pageup", "pagedown"} : DiffPage(key)
    \/ DiffScrollToPosition
    \/ DiffFinalizeHighlight

SpecPage == Init /\ [][PageNext]_vars

(***************************************************************************)
(* The Files pane from the start of the program: the path given on the     *)
(* command line, on_mount, and the directories the Files list walks.       *)
(***************************************************************************)
\* The paths the program is started with: directories, a file, and a path
\* that names nothing.
StartPaths ==
    {RepoRoot, SubDir, GitDir, OutsideDir, Join(RepoRoot, "f"), MissingPath}

\* GitHistoryTool.__init__
FilesInit ==
    /\ \E given \in StartPaths :
          /\ app = AppInit(FALSE, <<>>,
                           IF IsFile(given) THEN Parent(given) ELSE given,
                           <<>>)
          /\ call = [fn |-> "run",
                     initial_file |-> IF IsFile(given) THEN Basename(given)
                                      ELSE None]
    /\ result = <<>>
    /\ run = "init"
    /\ left = LeftInit
    /\ right1 = Right1Init
    /\ right2 = Right2Init
    /\ right3 = Right3Init
    /\ columns = FilesLayout
    /\ focused = "left"
    /\ modal = None
    /\ issued = <<>>

\* What build_repo_cache can leave in the application for directory path:
\* the repository r and its status when path is in r, no repository when
\* it is not; for a path that names nothing, discover_repository finds r
\* above it or raises.
BuildRepoCache(path) ==
    LET found == {[a EXCEPT !.path = path] : a \in Apps}
        none  == {AppInit(FALSE, <<>>, path, <<>>)}
    IN  IF path = <<>> \/ path[1] # RepoRoot[1] THEN none
        ELSE IF path \in Dirs THEN found
        ELSE found \cup none

\* on_mount: build_repo_cache, set_path for the starting directory and,
\* when the program was started with a file, _open_history_for_file: the
\* History list takes the focus and _highlight_filename is handed to
\* call_after_refresh for the file.
OnMount ==
    /\ run = "init"
    /\ run' = "running"
    /\ \E a \in BuildRepoCache(app.path) : app' = a
    /\ IF call.initial_file = None
       THEN /\ left' = SetPath(left, app.path)
            /\ UNCHANGED <<right1, right2, columns, focused>>
       ELSE /\ left' = [SetPath(left, app.path) EXCEPT
                           !.callbacks =
                               Append(@, HighlightFilename(call.initial_file))]
            /\ right1' = [nodes    |-> AssembleInitial(call.initial_file,
                                                       DiffLog),
                          index    |-> 0,
                          filename |-> call.initial_file,
                          display  |-> Shown]
            /\ right2' = [right2 EXCEPT !.display = Hidden]
            /\ columns' = HistoryLayout
            /\ focused' = "right1"
    /\ UNCHANGED <<right3, modal, issued, callVars>>

\* Right on a file of the listed directory.
FilesSelectsFile ==
    /\ left.index # NoIndex
    /\ HighlightedName \notin {None, ".."}
    /\ Join(left.path, HighlightedName) \notin Dirs
    /\ FilesRightFile(HighlightedName, DiffLog, "d1", "d1")

FilesNext ==
    \/ OnMount
    \/ FilesUp
    \/ FilesDown
    \/ FilesRightDir
    \/ FilesRightParent
    \/ FilesLeftParent
    \/ FilesLeftAtRoot
    \/ FilesRunCallback
    \/ FilesSelectsFile
    \/ HistoryLeft
    \/ ModalKey

SpecFiles == FilesInit /\ [][FilesNext]_vars

(***************************************************************************)
(* The functions on their own: one specification for each, whose initial   *)
(* states hold the arguments of one call (in `call`, and in `app` for the  *)
(* attributes of the application the function reads) and whose one step    *)
(* makes the call and stores what it returns in `result`.                  *)
(***************************************************************************)
Pending(fn) == call.fn = fn /\ result = <<>>
Returned(fn) == call.fn = fn /\ result # <<>>

\* An application that has found the repository, with no file touched.
IdleApp == AppInit(TRUE, RepoRoot, RepoRoot, <<>>)

\* repo.status() for one file: its flags under its path relative to the
\* root, nothing when it has no flag.
FileStatusMap(rel, flags) ==
    IF flags = {} THEN <<>> ELSE [k \in {rel} |-> flags]

\* The flags of a file that is in the index: it is not new in the working
\* tree, not ignored and not deleted from the index.
InIndex(flags) == flags \cap {"WT_NEW", "IGNORED", "INDEX_DELETED"} = {}

\* The application browsing directory path, where file name has the flags.
AppWith(path, name, flags) ==
    LET rel == RelPath(Join(path, name), RepoRoot)
    IN  [AppInit(TRUE, RepoRoot, path, FileStatusMap(rel, flags))
            EXCEPT !.repo_index_set = IF InIndex(flags) THEN {rel} ELSE {}]

\* The application that found no repository.
NoRepoApp == AppInit(FALSE, <<>>, RepoRoot, <<>>)

\* `full` is below the directory root.
IsBelow(full, root) ==
    Len(full) > Len(root) /\ CommonPrefixLen(full, root) = Len(root)

(***************************************************************************)
(* SpecBuild: HistoryList.on_key._build_diff_cmd.                          *)
(***************************************************************************)
\* What a side of a request can be: nothing, a pseudo ref, a commit hash.
Refs == {None, MODS, STAGED} \cup HexTokens

BuildInit ==
    /\ NavInit(IdleApp)
    /\ \E prev \in Refs, curr \in Refs, fname \in FileNames :
          call = [fn |-> "_build_diff_cmd", prev |-> prev, curr |-> curr,
                  fname |-> fname]
    /\ result = <<>>

BuildCall ==
    /\ Pending("_build_diff_cmd")
    /\ result' = <<HistoryBuildDiffCmd(call.prev, call.curr, call.fname)>>
    /\ UNCHANGED <<navVars, call>>

BuildNext == BuildCall

SpecBuild == BuildInit /\ [][BuildNext]_vars

(***************************************************************************)
(* SpecPair: the choice of the pair in HistoryList.on_key (Right).         *)
(***************************************************************************)
\* The flags of a file with no change, with unstaged changes, with staged
\* changes, and with both.
ChangeFlags == {{}, {"WT_MODIFIED"}, {"INDEX_MODIFIED"},
                {"INDEX_MODIFIED", "WT_MODIFIED"}}

\* The lists the History pane can hold.
HistoryLists ==
    {Assemble(AppWith(RepoRoot, "f", flags), "f", out, "d1", "d1") :
        flags \in ChangeFlags, out \in Logs}

\* nodes with the item at index mark checked, none for NoIndex.
WithMark(nodes, mark) ==
    [i \in 1..Len(nodes) |-> [nodes[i] EXCEPT !.checked = (i = mark + 1)]]

PairInit ==
    /\ NavInit(IdleApp)
    /\ \E nodes \in HistoryLists :
          \E idx \in 0..(Len(nodes) - 1), mark \in NoIndex..(Len(nodes) - 1) :
              call = [fn |-> "select_pair", nodes |-> WithMark(nodes, mark),
                      idx |-> idx]
    /\ result = <<>>

PairCall ==
    /\ Pending("select_pair")
    /\ result' = <<SelectPair(call.nodes, call.idx)>>
    /\ UNCHANGED <<navVars, call>>

PairNext == PairCall

SpecPair == PairInit /\ [][PairNext]_vars

(***************************************************************************)
(* From the Files pane to the diff, for a file f with each combination of  *)
(* staged and unstaged changes.                                            *)
(***************************************************************************)
SelectInit ==
    /\ \E flags \in ChangeFlags : NavInit(AppWith(RepoRoot, "f", flags))
    /\ call = NoCall
    /\ result = <<>>

SelectNext ==
    \/ \E out \in Logs : FilesRightFile("f", out, "d1", "d1")
    \/ HistoryUp
    \/ HistoryDown
    \/ HistoryMark
    \/ HistoryLeft
    \/ HistoryRightRefused
    \/ \E diff_out \in DiffOuts : HistoryRight(diff_out)
    \/ DiffLeft
    \/ ModalKey

SpecSelect == SelectInit /\ [][SelectNext]_vars

(***************************************************************************)
(* SpecAssemble: the History list FileList.on_key (Right on a file) and    *)
(* GitHistoryTool._open_history_for_file build.                            *)
(***************************************************************************)
\* The applications the list is assembled in: the file f, with any of the
\* index and working-tree flags, in the root of the repository or in a
\* directory below it; f in a directory outside of the repository; f with no
\* repository found.
AssembleApps ==
    {AppWith(path, "f", flags) :
        path \in {RepoRoot, SubDir}, flags \in SUBSET (IndexFlags \cup WtFlags)}
    \cup {AppInit(TRUE, RepoRoot, OutsideDir, <<>>), NoRepoApp}

AssembleInit ==
    /\ \E a \in AssembleApps : NavInit(a)
    /\ \/ \E out \in Logs, index_mtime \in Mtimes, file_mtime \in Mtimes :
             call = [fn |-> "FileList.on_key", item_name |-> "f",
                     out |-> out, index_mtime |-> index_mtime,
                     file_mtime |-> file_mtime]
       \/ \E out \in Logs :
             call = [fn |-> "_open_history_for_file", item_name |-> "f",
                     out |-> out]
    /\ result = <<>>

AssembleCall ==
    /\ Pending("FileList.on_key")
    /\ result' = <<Assemble(app, call.item_name, call.out, call.index_mtime,
                            call.file_mtime)>>
    /\ UNCHANGED <<navVars, call>>

AssembleInitialCall ==
    /\ Pending("_open_history_for_file")
    /\ result' = <<AssembleInitial(call.item_name, call.out)>>
    /\ UNCHANGED <<navVars, call>>

AssembleNext == AssembleCall \/ AssembleInitialCall

SpecAssemble == AssembleInit /\ [][AssembleNext]_vars

(***************************************************************************)
(* SpecClassify: the status FileList.set_path gives a file.                *)
(***************************************************************************)
\* The names of the files listed.
ListedNames == {"f", "..f"}

\* The applications a file is listed in: the file in the root of the
\* repository or below it with any flags; the same with no flags for a file
\* that is not in the index; the file outside of the repository, where the
\* file of the same name in the root of the repository has any flags; the
\* file with no repository found.
ClassifyApps(name) ==
    {AppWith(path, name, flags) :
        path \in {RepoRoot, SubDir}, flags \in SUBSET StatusFlags}
    \cup {[AppWith(path, name, {}) EXCEPT !.repo_index_set = {}] :
             path \in {RepoRoot, SubDir}}
    \cup {AppInit(TRUE, RepoRoot, OutsideDir, FileStatusMap(<<name>>, flags)) :
             flags \in SUBSET StatusFlags}
    \cup {NoRepoApp}

ClassifyInit ==
    /\ \E name \in ListedNames :
          /\ \E a \in ClassifyApps(name) : NavInit(a)
          /\ call = [fn |-> "set_path", path |-> app.path, name |-> name]
    /\ result = <<>>

ClassifyCall ==
    /\ Pending("set_path")
    /\ result' = <<Classify(app, call.path, call.name)>>
    /\ UNCHANGED <<navVars, call>>

ClassifyNext == ClassifyCall

SpecClassify == ClassifyInit /\ [][ClassifyNext]_vars

(***************************************************************************)
(* Properties.                                                             *)
(***************************************************************************)
\* The hashes of the items of a list.
HashesOf(nodes) == {nodes[i].hash : i \in 1..Len(nodes)}

\* The indices of the checked items of a list.
Marked(nodes) == {i - 1 : i \in {j \in 1..Len(nodes) : nodes[j].checked}}

\* C1: in every history list assembled for a file no commit entry comes
\* before a pseudo entry, MODS is immediately before STAGED when both are
\* there, and the commit entries are those of the log, in the log's order
\* (newest first).
C1_PseudoEntriesFirst ==
    (Returned("FileList.on_key") \/ Returned("_open_history_for_file")) =>
        LET nodes == result[1]
        IN  /\ \A i, j \in 1..Len(nodes) :
                  IsCommitItem(nodes[i]) /\ IsPseudoItem(nodes[j]) => j < i
            /\ {MODS, STAGED} \subseteq HashesOf(nodes) =>
                  \E i \in 1..(Len(nodes) - 1) :
                      nodes[i].hash = MODS /\ nodes[i + 1].hash = STAGED
            /\ SelectSeq(nodes, IsCommitItem) = CommitItems(call.out)

\* C1: a list with both pseudo entries and two commits has been assembled.
C1_Witness ==
    /\ Returned("FileList.on_key")
    /\ {MODS, STAGED} \subseteq HashesOf(result[1])
    /\ Len(call.out) >= 2
    /\ Len(result[1]) = Len(call.out) + 2

\* C2: with no checked item, or with the highlighted item checked, the pair
\* is newer = highlighted, older = highlighted + 1 for every highlighted
\* index below the last, and there is no pair for the last index; a list of
\* one item never has a pair.
C2_AdjacentPair ==
    Returned("select_pair") =>
        LET n == Len(call.nodes)
            r == result[1]
        IN  /\ Marked(call.nodes) \subseteq {call.idx} =>
                  IF call.idx = n - 1
                  THEN ~r.ok /\ r.notice = "No earlier commit to diff with"
                  ELSE r.ok /\ r.i_newer = call.idx /\ r.i_older = call.idx + 1
            /\ n = 1 => ~r.ok

\* C2: the highlighted item is the checked one, it is not the last, and the
\* pair has been chosen.
C2_Witness ==
    /\ Returned("select_pair")
    /\ Marked(call.nodes) = {call.idx}
    /\ call.idx < Len(call.nodes) - 1
    /\ result[1].ok

\* C3: with a checked item other than the highlighted one the pair is
\* older = max(highlighted, checked), newer = min(highlighted, checked), also
\* when the highlighted item is the last; it is the pair chosen when the
\* highlighted and the checked item change places.
C3_MarkedPair ==
    Returned("select_pair") =>
        \A mark \in Marked(call.nodes) :
            mark # call.idx =>
                /\ result[1].ok
                /\ result[1].i_older = Max(call.idx, mark)
                /\ result[1].i_newer = Min(call.idx, mark)
                /\ SelectPair(WithMark(call.nodes, call.idx), mark) = result[1]

\* C3: the last item is highlighted, an item that is not next to it is
\* checked, and the pair has been chosen.
C3_Witness ==
    /\ Returned("select_pair")
    /\ call.idx = Len(call.nodes) - 1
    /\ \E mark \in Marked(call.nodes) : mark < call.idx - 1
    /\ result[1].ok

\* A step of m / M in the History pane.
MarkStep ==
    /\ focused = "right1" /\ focused' = "right1"
    /\ right1'.nodes # right1.nodes

\* C4: at most one item of the History list is checked at any time; m on an
\* unchecked item leaves that item the only checked one, also when another
\* was checked, and m on the checked item leaves no item checked.
C4_OneMark ==
    /\ [](Cardinality(Marked(right1.nodes)) <= 1)
    /\ [][MarkStep =>
            Marked(right1'.nodes) =
                IF right1.index \in Marked(right1.nodes) THEN {}
                ELSE {right1.index}]_vars

\* C4: an item is checked and another one is highlighted, in a list of at
\* least three.
C4_Witness ==
    /\ focused = "right1" /\ modal = None
    /\ Len(right1.nodes) >= 3
    /\ \E mark \in Marked(right1.nodes) : mark > 0 /\ mark # right1.index

\* C5: for a commit h and a pseudo ref, in either order, the command is the
\* same: h against the working tree for MODS, h against the index
\* (--cached) for STAGED.
C5_CommitAgainstPseudo ==
    Returned("_build_diff_cmd") =>
        \A h \in HexTokens :
            /\ {call.prev, call.curr} = {h, MODS} =>
                  result[1] = <<"git", "diff", h, "--", call.fname>>
            /\ {call.prev, call.curr} = {h, STAGED} =>
                  result[1] = <<"git", "diff", "--cached", h, "--", call.fname>>

\* C5: the command has been built for STAGED as the older side and a commit
\* as the newer.
C5_Witness ==
    /\ Returned("_build_diff_cmd")
    /\ call.prev = STAGED /\ call.curr \in HexTokens
    /\ result[1][3] = "--cached"

\* C6: for STAGED and MODS, in either order, the command diffs the index
\* against the working tree, with no commit argument.
C6_IndexAgainstWorkingTree ==
    Returned("_build_diff_cmd") =>
        ({call.prev, call.curr} = {STAGED, MODS} =>
            result[1] = <<"git", "diff", "--", call.fname>>)

\* C6: the command has been built for MODS as the older side and STAGED as
\* the newer.
C6_Witness ==
    /\ Returned("_build_diff_cmd")
    /\ call.prev = MODS /\ call.curr = STAGED

\* C7: for two commits the command diffs the older against the newer, the
\* older hash first; the other order of the refs gives the other order of
\* the arguments.
C7_TwoCommits ==
    Returned("_build_diff_cmd") =>
        (call.prev \in HexTokens /\ call.curr \in HexTokens =>
            /\ result[1] = <<"git", "diff", call.prev, call.curr, "--",
                             call.fname>>
            /\ HistoryBuildDiffCmd(call.curr, call.prev, call.fname) =
                  <<"git", "diff", call.curr, call.prev, "--", call.fname>>)

\* C7: the command has been built for two different commits.
C7_Witness ==
    /\ Returned("_build_diff_cmd")
    /\ call.prev \in HexTokens /\ call.curr \in HexTokens
    /\ call.prev # call.curr

\* C8: while the Diff pane shows the request Right has cached, the command
\* last issued for it, by Right or by a c / C that issues it again, is the
\* command Right built for it.
C8_ReissueSameCommand ==
    focused = "right2" /\ modal = None =>
        issued = HistoryBuildDiffCmd(app.current_prev_sha,
                                     app.current_commit_sha,
                                     app.current_diff_file)

\* The categories in the order of their precedence, and the flags that put
\* a file in each.
Categories ==
    <<"conflicted", "staged", "wt_deleted", "ignored", "modified",
      "untracked", "tracked_clean">>

CategoryFlags(category) ==
    CASE category = "conflicted" -> {"CONFLICTED"}
      [] category = "staged" -> IndexFlags
      [] category = "wt_deleted" -> {"WT_DELETED"}
      [] category = "ignored" -> {"IGNORED"}
      [] category = "modified" -> {"WT_MODIFIED"}
      [] category = "untracked" -> {"WT_NEW"}
      [] OTHER -> {}

CategoryMatches(category, flags) ==
    category = "tracked_clean" \/ HasAny(flags, CategoryFlags(category))

\* The first category, in the order of precedence, that matches the flags.
FirstCategory(flags) ==
    Categories[CHOOSE i \in 1..Len(Categories) :
                   /\ CategoryMatches(Categories[i], flags)
                   /\ \A j \in 1..(i - 1) : ~CategoryMatches(Categories[j], flags)]

\* The flags repo.status() has for the file of the call.
FlagsOfCall(path, name) ==
    StatusGet(app.repo_status_map, RelPath(Join(path, name), app.repo_root))

\* C9: for every combination of the flags of a file inside an available
\* repository the status is the first category that matches, in the order
\* conflicted, staged, wt_deleted, ignored, modified, untracked,
\* tracked_clean.
C9_FirstCategory ==
    /\ Returned("set_path")
    /\ app.repo_available
    /\ IsBelow(Join(call.path, call.name), app.repo_root)
    => result[1] = FirstCategory(FlagsOfCall(call.path, call.name))

\* C9, the part that holds: the same for the files whose path relative to
\* the root of the repository does not begin with two dots.
C9_FirstCategoryPlainNames ==
    /\ Returned("set_path")
    /\ app.repo_available
    /\ IsBelow(Join(call.path, call.name), app.repo_root)
    /\ ~StartsWithDotDot(RelPath(Join(call.path, call.name), app.repo_root)[1])
    => result[1] = FirstCategory(FlagsOfCall(call.path, call.name))

\* C10: for every file inside the repository and every log, the list
\* assembled on Right has a STAGED entry exactly when the file has an index
\* flag and a MODS entry exactly when it has a working-tree flag.
C10_PseudoEntriesIffFlags ==
    /\ Returned("FileList.on_key")
    /\ app.repo_available
    /\ IsBelow(Join(app.path, call.item_name), app.repo_root)
    => LET flags == FlagsOfCall(app.path, call.item_name)
       IN  /\ STAGED \in HashesOf(result[1]) <=> HasAny(flags, IndexFlags)
           /\ MODS \in HashesOf(result[1]) <=> HasAny(flags, WtFlags)

\* C10, the part that holds: the same for every log that is not empty.
C10_PseudoEntriesIffFlagsWithLog ==
    /\ Returned("FileList.on_key")
    /\ app.repo_available
    /\ IsBelow(Join(app.path, call.item_name), app.repo_root)
    /\ call.out # <<>>
    => LET flags == FlagsOfCall(app.path, call.item_name)
       IN  /\ STAGED \in HashesOf(result[1]) <=> HasAny(flags, IndexFlags)
           /\ MODS \in HashesOf(result[1]) <=> HasAny(flags, WtFlags)

\* The pseudo entries that apply to the file of the call: those its flags
\* ask for, when it is inside an available repository.
PseudoApplies ==
    /\ app.repo_available
    /\ IsBelow(Join(app.path, call.item_name), app.repo_root)
    /\ HasAny(FlagsOfCall(app.path, call.item_name), IndexFlags \cup WtFlags)

\* C11: the list assembled on Right is the single `No git history` item
\* exactly when the log is empty and no pseudo entry applies; with an empty
\* log and a pseudo entry that applies the list holds pseudo entries and
\* not that item.
C11_SentinelIffNothingToShow ==
    Returned("FileList.on_key") =>
        /\ (result[1] = <<NoHistoryItem(call.item_name)>>
               <=> (call.out = <<>> /\ ~PseudoApplies))
        /\ (call.out = <<>> /\ PseudoApplies =>
               /\ \A i \in 1..Len(result[1]) : IsPseudoItem(result[1][i])
               /\ result[1] # <<>>)

\* C11, the part that holds: the list is the single `No git history` item
\* exactly when the log is empty.
C11_SentinelIffEmptyLog ==
    Returned("FileList.on_key") =>
        (result[1] = <<NoHistoryItem(call.item_name)>> <=> call.out = <<>>)

\* The entries of a list: the pseudo ref of a pseudo item, the line of any
\* other item.
EntriesOf(nodes) ==
    [i \in 1..Len(nodes) |->
        IF IsPseudoItem(nodes[i]) THEN <<nodes[i].hash>> ELSE nodes[i].text]

\* C12: the list built for the file named on the command line has the
\* entries, pseudo entries and then commits, of the list Right on that file
\* builds in the Files pane, for the same log and the same status.
C12_LaunchListSameAsSelect ==
    Returned("_open_history_for_file") =>
        EntriesOf(result[1]) =
            EntriesOf(Assemble(app, call.item_name, call.out, None, None))

\* C12, the part that holds: the list built for the file named on the
\* command line has the commit entries of the list Right builds, and no
\* pseudo entry.
C12_LaunchListSameCommits ==
    Returned("_open_history_for_file") =>
        /\ \A i \in 1..Len(result[1]) : ~IsPseudoItem(result[1][i])
        /\ SelectSeq(result[1], IsCommitItem) =
              SelectSeq(Assemble(app, call.item_name, call.out, None, None),
                        IsCommitItem)

\* The index of the item the highlighted item of the History list is
\* compared with: the checked item, the next item when no other item is
\* checked.
OtherIndex ==
    IF Marked(right1.nodes) \subseteq {right1.index} THEN right1.index + 1
    ELSE CHOOSE mark \in Marked(right1.nodes) : mark # right1.index

\* C13: whenever the Diff pane shows a diff, rendered by Right or rendered
\* again by c / C, its header `Comparing: X..Y` has for X the ref of the
\* item with the larger index and for Y the ref of the item with the smaller
\* index, of the highlighted item and the item it is compared with.
C13_HeaderOlderNewer ==
    focused = "right2" /\ modal = None =>
        LET i == right1.index
            j == OtherIndex
        IN  /\ j < Len(right1.nodes)
            /\ right2.header = <<right1.nodes[(IF i > j THEN i ELSE j) + 1].hash,
                                 right1.nodes[(IF i > j THEN j ELSE i) + 1].hash>>

\* C13: the Diff pane shows a diff rendered with colorization switched off,
\* for a highlighted item below the checked one.
C13_Witness ==
    /\ focused = "right2" /\ modal = None
    /\ \E mark \in Marked(right1.nodes) : mark < right1.index
    /\ ~app.colorize_diff /\ ~right2.colored
    /\ right2.header[1] = right1.nodes[right1.index + 1].hash

\* The request cached for c / C.
CachedRequest ==
    <<app.current_prev_sha, app.current_commit_sha, app.current_diff_file>>

\* The History pane has the focus and there is no pair for its highlighted
\* item: it is the last item and no other item is checked.
NoPairAvailable ==
    /\ focused = "right1" /\ modal = None
    /\ Marked(right1.nodes) \subseteq {right1.index}
    /\ right1.index = Len(right1.nodes) - 1

\* C14: when there is no pair for the highlighted item no step leads to the
\* Diff pane, and Right shows a notice and changes nothing else: the
\* History pane keeps the focus, the Diff list and the cached request are
\* as they were.
C14_NoPairRefused ==
    [][NoPairAvailable =>
          /\ focused' # "right2"
          /\ (modal' # None =>
                 /\ modal' = "No earlier commit to diff with"
                 /\ focused' = "right1"
                 /\ right2' = right2
                 /\ CachedRequest' = CachedRequest
                 /\ right1' = right1
                 /\ columns' = columns)]_vars

\* C14: Right has been refused for want of a pair while a diff rendered
\* earlier and its request are still held.
C14_Witness ==
    /\ modal = "No earlier commit to diff with"
    /\ focused = "right1"
    /\ right2.lines # <<>>
    /\ Truthy(app.current_commit_sha)

\* C15: when the diff query of Right raises, the failure is shown in a
\* notice and the state is as before: the History pane keeps the focus, the
\* Diff list and the cached request are unchanged.
C15_DiffFailureChangesNothing ==
    [][focused = "right1" /\ modal = None /\ modal' = "diff query failed" =>
          /\ focused' = "right1"
          /\ right2' = right2
          /\ CachedRequest' = CachedRequest]_vars

\* C15, the part that holds: when the diff query of Right raises, the
\* failure is shown in a notice, the History pane keeps the focus and the
\* Diff list is unchanged.
C15_DiffFailureKeepsPanes ==
    [][focused = "right1" /\ modal = None /\ modal' = "diff query failed" =>
          /\ focused' = "right1"
          /\ right1' = right1
          /\ right2' = right2
          /\ columns' = columns]_vars

C17_BackFromDiff ==
    /\ [][DiffLeft =>
            IF app.diff_fullscreen
            THEN /\ focused' = "right2"
                 /\ ~app'.diff_fullscreen
                 /\ columns' = DiffLayout
            ELSE /\ focused' = "right1"
                 /\ ~app'.diff_fullscreen]_vars
    /\ [](DiffKey => ENABLED DiffLeft)
    /\ [][DiffKey /\ app.diff_fullscreen => focused' # "right1"]_vars

\* C17: the Diff pane is in fullscreen and Left can take it out of
\* fullscreen to the columns, from where Left leads to the History pane.
C17_Witness ==
    /\ DiffKey
    /\ app.diff_fullscreen
    /\ ENABLED (DiffLeft /\ focused' = "right2" /\ ~app'.diff_fullscreen)

\* The Diff pane in fullscreen: all of the width, the Files and History
\* columns at no width, the History list hidden.
InFullscreen ==
    /\ app.diff_fullscreen
    /\ columns = FullscreenLayout
    /\ right1.display = Hidden /\ right2.display = Shown

\* The Diff pane in the 5/15/80 split.
InColumns ==
    /\ ~app.diff_fullscreen
    /\ columns = DiffLayout
    /\ right1.display = Shown /\ right2.display = Shown

\* The layout of fullscreen and the layout of the 5/15/80 split, whatever
\* app.diff_fullscreen says.
FullscreenShown ==
    /\ columns = FullscreenLayout
    /\ right1.display = Hidden /\ right2.display = Shown

ColumnsShown ==
    /\ columns = DiffLayout
    /\ right1.display = Shown /\ right2.display = Shown

\* f leaves the focus, the diff shown and the cached request as they are.
ToggleFrame ==
    /\ focused' = "right2"
    /\ right2'.header = right2.header
    /\ right2'.lines = right2.lines
    /\ right2'.colored = right2.colored
    /\ CachedRequest' = CachedRequest

\* C18: f in the Diff pane switches the layout from fullscreen to the
\* 5/15/80 split or from the split to fullscreen, keeps the focus in the
\* Diff pane and leaves the diff shown and the cached request unchanged (so
\* that two f in a row restore the layout).
C18_ToggleFullscreen ==
    [][DiffFullscreen =>
          /\ ToggleFrame
          /\ \/ FullscreenShown /\ ColumnsShown'
             \/ ColumnsShown /\ FullscreenShown']_vars

\* C18, the part that holds: f keeps the focus, the diff shown and the
\* cached request, and it switches between the two layouts whenever
\* app.diff_fullscreen agrees with the layout on the screen.
C18_ToggleFullscreenConsistent ==
    [][DiffFullscreen =>
          /\ ToggleFrame
          /\ (InFullscreen => InColumns')
          /\ (InColumns => InFullscreen')]_vars

\* C18: the Diff pane shows a diff in fullscreen.
C18_Witness ==
    /\ DiffKey
    /\ InFullscreen
    /\ right2.lines # <<>>
    /\ Truthy(app.current_commit_sha)

\* The saved layout is the layout of fullscreen.
SavedFullscreen ==
    /\ app.saved_column_state # <<>>
    /\ app.saved_column_state[1].right1.display = Hidden
    /\ app.saved_column_state[1].right2.display # Hidden

\* C19: once the help has been dismissed and the list has the focus again,
\* the widths of the columns and the visibility of the History and the Diff
\* list are the ones saved when the help was requested, in whichever pane
\* and layout that was.
C19_HelpRestoresSnapshot ==
    [][HelpRestoreFocus => <<Snapshot'>> = app.saved_column_state]_vars

\* C19, the part that holds: HelpList.on_key puts back what was saved, and
\* the layout is still the saved one after the list has taken the focus
\* unless the saved layout is fullscreen.
C19_HelpRestoresSnapshotUnlessFullscreen ==
    /\ [][HelpDismiss => <<Snapshot'>> = app.saved_column_state]_vars
    /\ [][HelpRestoreFocus /\ ~SavedFullscreen =>
            <<Snapshot'>> = app.saved_column_state]_vars

\* The rightmost pane that a saved layout shows.
RightmostVisible(state) ==
    IF state.right2.display # Hidden THEN "right2"
    ELSE IF state.right1.display # Hidden THEN "right1"
    ELSE "left"

RestoresHighlight ==
    /\ right2.restore_state # <<>>
    /\ Head(right2.restore_state).index # NoIndex

\* C21: c re-issues the cached request and renders it again; the focus, the
\* fullscreen flag and the cached request stay as they are, and once
\* restore_state has run the scroll offset and the index are the ones the
\* list had before the toggle.
C21_ColorizeKeepsPosition ==
    /\ [][(\E diff_out \in DiffOuts : DiffColorize(diff_out)) =>
            /\ focused' = focused
            /\ app'.diff_fullscreen = app.diff_fullscreen
            /\ CachedRequest' = CachedRequest
            /\ right2'.header = <<app.current_prev_sha,
                                  app.current_commit_sha>>
            /\ right2'.restore_state =
                   Append(right2.restore_state,
                          [scroll_y |-> right2.scroll_y,
                           index |-> right2.index])]_vars
    /\ [][DiffRestoreState /\ RestoresHighlight =>
            /\ right2'.scroll_y = Head(right2.restore_state).scroll_y
            /\ right2'.index = Head(right2.restore_state).index]_vars

\* C21, the part that holds: c leaves the focus, the fullscreen flag and
\* the cached request as they are, and restore_state puts the scroll offset
\* and the index back whenever the list that was rendered again is long
\* enough to have them.
C21_ColorizeKeepsPositionInRange ==
    /\ [][(\E diff_out \in DiffOuts : DiffColorize(diff_out)) =>
            /\ focused' = focused
            /\ app'.diff_fullscreen = app.diff_fullscreen
            /\ CachedRequest' = CachedRequest]_vars
    /\ [][/\ DiffRestoreState /\ RestoresHighlight
          /\ Head(right2.restore_state).index < DiffLen(right2.lines)
          /\ Head(right2.restore_state).scroll_y <= MaxScrollY(right2.lines)
          => /\ right2'.scroll_y = Head(right2.restore_state).scroll_y
             /\ right2'.index = Head(right2.restore_state).index]_vars

\* The file f has a change in the working tree and none in the index.
WorkingTreeChangeOnly ==
    LET flags == StatusGet(app.repo_status_map, <<"f">>)
    IN  HasAny(flags, WtFlags) /\ ~HasAny(flags, IndexFlags)

\* The History list holds a history of f, and not the item that says there
\* is none.
HistoryListed ==
    /\ right1.filename = "f"
    /\ right1.nodes # <<>>
    /\ ~IsSentinelItem(right1.nodes[1])

\* C22: for a file with commits and a change in the working tree only, the
\* History list is the MODS entry followed by the commits in the order of
\* the log, newest first; and Right on item 0 with no mark shows the diff
\* of the newest commit (older) against MODS (newer), made by `git diff
\* <newest commit> -- f`, which compares the commit with the working tree.
C22_WorkingAgainstNewest ==
    WorkingTreeChangeOnly /\ HistoryListed =>
        /\ \E out \in Logs :
              /\ out # <<>>
              /\ WithMark(right1.nodes, NoIndex) =
                    <<PseudoItem(MODS, "d1")>> \o CommitItems(out)
        /\ focused = "right2" /\ right1.index = 0
              /\ Marked(right1.nodes) = {} =>
              LET newest == right1.nodes[2].hash
              IN  /\ IsCommit(newest)
                  /\ right2.header = <<newest, MODS>>
                  /\ CachedRequest = <<newest, MODS, "f">>
                  /\ issued = <<"git", "diff", newest, "--", "f">>

\* C22: f has the commits c2 and c1 and a change in the working tree only,
\* and Right on item 0 has rendered a diff.
C22_Witness ==
    /\ WorkingTreeChangeOnly /\ HistoryListed
    /\ focused = "right2" /\ right1.index = 0
    /\ Marked(right1.nodes) = {}
    /\ Len(right1.nodes) = 3
    /\ right1.nodes[2].hash = "c2" /\ right1.nodes[3].hash = "c1"

C23_SingleRefNewer ==
    Returned("_build_diff_cmd") =>
        /\ call.curr = STAGED /\ call.prev = None =>
              result[1] = <<"git", "diff", "--cached", "--", call.fname>>
        /\ {call.prev, call.curr} = {MODS, None} =>
              result[1] = <<"git", "diff", "--", call.fname>>

\* C24: a file outside of the root of the repository, and every file when
\* no repository was found, has the status untracked, whatever flags the
\* status map holds.
C24_OutsideUntracked ==
    /\ Returned("set_path")
    /\ \/ ~app.repo_available
       \/ ~IsBelow(Join(call.path, call.name), app.repo_root)
    => result[1] = "untracked"

\* C24: a file outside of the repository has been classified while the
\* status map holds flags for the file of that name in the repository.
C24_Witness ==
    /\ Returned("set_path")
    /\ app.repo_available
    /\ call.path = OutsideDir
    /\ StatusGet(app.repo_status_map, <<call.name>>) # {}
    /\ result[1] = "untracked"

\* C25: a file inside an available repository with none of the flags has
\* the status tracked_clean if it is in the index and untracked if it is
\* not.
C25_NoFlags ==
    /\ Returned("set_path")
    /\ app.repo_available
    /\ IsBelow(Join(call.path, call.name), app.repo_root)
    /\ FlagsOfCall(call.path, call.name) = {}
    => result[1] =
          IF RelPath(Join(call.path, call.name), app.repo_root)
                \in app.repo_index_set
          THEN "tracked_clean" ELSE "untracked"

\* C25, the part that holds: a file with none of the flags that is in the
\* index, and whose path relative to the root does not begin with two dots,
\* has the status tracked_clean.
C25_NoFlagsTracked ==
    /\ Returned("set_path")
    /\ app.repo_available
    /\ IsBelow(Join(call.path, call.name), app.repo_root)
    /\ FlagsOfCall(call.path, call.name) = {}
    /\ RelPath(Join(call.path, call.name), app.repo_root)
          \in app.repo_index_set
    /\ ~StartsWithDotDot(RelPath(Join(call.path, call.name), app.repo_root)[1])
    => result[1] = "tracked_clean"

\* The line has the shape `date hash subject`.
WellFormed(line) == line \in {LogLine(h) : h \in HexTokens}

\* The History pane has the focus, there is a pair for the highlighted item
\* and one of its two items has no hash.
PairLacksHash ==
    /\ HistoryKey
    /\ SelectPair(right1.nodes, right1.index).ok
    /\ LET pair == SelectPair(right1.nodes, right1.index)
       IN  \/ right1.nodes[pair.i_newer + 1].hash = None
           \/ right1.nodes[pair.i_older + 1].hash = None

\* The same, and both items have a hash.
PairHasHashes ==
    /\ HistoryKey
    /\ SelectPair(right1.nodes, right1.index).ok
    /\ ~PairLacksHash

\* C26: Right on a file puts one item in the History list for every line of
\* the log, with the hash of the line, or with no hash when the line does
\* not have the shape `date hash subject`; Right in the History list is
\* refused with the notice that the hashes could not be parsed when one of
\* the two items of the pair has no hash, and only then, and changes
\* nothing else; for a pair of items with hashes Right can render the diff.
C26_ParseFailure ==
    /\ [][\A item_name \in FileNames : \A out \in LogsOf(item_name) :
            FilesRightFile(item_name, out, "d1", "d1") =>
                LET k == Len(right1'.nodes) - Len(out)
                IN  /\ k >= 0
                    /\ \A i \in 1..Len(out) :
                          /\ right1'.nodes[k + i].text = out[i]
                          /\ right1'.nodes[k + i].hash =
                                IF WellFormed(out[i]) THEN out[i][2]
                                ELSE None]_vars
    /\ [][PairLacksHash =>
            /\ focused' # "right2"
            /\ (modal' # None =>
                   /\ modal' = "Could not parse hashes"
                   /\ right1' = right1 /\ right2' = right2
                   /\ CachedRequest' = CachedRequest)]_vars
    /\ [](PairLacksHash => ENABLED HistoryRightRefused)
    /\ [][PairHasHashes => modal' # "Could not parse hashes"]_vars
    /\ [](PairHasHashes => ENABLED (\E diff_out \in DiffOuts :
                                       HistoryRight(diff_out)))

\* C26: the log of f has a line that does not have the shape, its item has
\* no hash, the commit below it has one, and Right on the pair of the two
\* has been refused.
C26_Witness ==
    /\ modal = "Could not parse hashes"
    /\ focused = "right1"
    /\ \E i \in 1..(Len(right1.nodes) - 1) :
          /\ right1.nodes[i].hash = None
          /\ right1.nodes[i].text = <<"garbled">>
          /\ right1.nodes[i + 1].hash = "c1"


\* A key reaches the on_key of a list: the application is running, one of
\* the Files, History, Diff and Help lists has the focus (the Diff list in
\* columns or fullscreen) and no modal is shown.
PaneState ==
    /\ Running
    /\ modal = None
    /\ focused \in {"left", "right1", "right2", "right3"}

\* C30: from each of the states Files, History, Diff (in columns or
\* fullscreen) and Help, q and Q lead to termination: the on_key of no list
\* consumes the key, so that the step that terminates the application can
\* be taken with either key, and taking it leaves the application
\* terminated.
C30_QuitFromEveryPane ==
    /\ [](PaneState => \A key \in QuitKeys : ENABLED Quit(key))
    /\ [][\A key \in QuitKeys : Quit(key) => run' = "terminated"]_vars

\* The application was terminated from the Help state that was opened over
\* the fullscreen Diff list.
C30_Witness ==
    /\ run = "terminated"
    /\ focused = "right3"
    /\ app.diff_fullscreen


\* Right on the file f in the Files pane, whatever git log prints.
SelectsFile == \E out \in Logs : FilesRightFile("f", out, "d1", "d1")

LastCallbackRuns == FilesRunCallback /\ left'.callbacks = <<>>

\* The highlight of list is on the item named name, or on the first item
\* when no item has that name.
HighlightOn(list, name) ==
    IF \E i \in 1..Len(list.items) : list.items[i] = name
    THEN list.index # NoIndex /\ list.items[list.index + 1] = name
    ELSE list.index = 0

\* C28: when the last of the highlight callbacks has run, the highlight is
\* on the first item if the latest navigation was Right on a directory, and
\* if it was Left on `..` the highlight is on the item named after the
\* directory that was left, or on the first item when the new listing has
\* no item of that name.
C28_HighlightAfterNavigation ==
    [][LastCallbackRuns =>
          /\ left.nav[1] = "child" => left'.index = 0
          /\ left.nav[1] = "parent" => HighlightOn(left', left.nav[2])]_vars

\* The Files list came from d to r, no callback waits, and the highlight is
\* on d, which is not the first item.
C28_Witness ==
    /\ Running
    /\ left.nav = <<"parent", "d">>
    /\ left.path = RepoRoot
    /\ left.callbacks = <<>>
    /\ left.index = 1
    /\ HighlightedName = "d"


\* C27: when the path the program is started with does not exist, the
\* program terminates instead of entering the Files state: the step that
\* follows __init__ leaves the application terminated.
C27_MissingPathTerminates ==
    [][run = "init" /\ app.path \notin Dirs => run' = "terminated"]_vars

\* C27, what the program does: started with a path that does not exist, it
\* runs with the Files list focused, whose one item is the message that
\* the directory cannot be read.
C27_MissingPathListsError ==
    [][run = "init" /\ app.path \notin Dirs =>
          /\ run' = "running"
          /\ focused' = "left"
          /\ left'.items = <<None>>]_vars


\* The number of items of a History list that are the pseudo entry.
PseudoCount(nodes, pseudo) ==
    Cardinality({i \in 1..Len(nodes) : nodes[i].hash = pseudo})

\* C31: in every reachable state the History list holds at most one STAGED
\* and at most one MODS pseudo entry, however many times the history of the
\* file has been opened.
C31_OnePseudoEntryOfEachKind ==
    /\ PseudoCount(right1.nodes, STAGED) <= 1
    /\ PseudoCount(right1.nodes, MODS) <= 1

\* The history of f is open again after a diff of it was shown, and holds
\* one pseudo entry of each kind.
C31_Witness ==
    /\ focused = "right1"
    /\ right2.display = Hidden
    /\ right2.lines # <<>>
    /\ right1.index = 0
    /\ PseudoCount(right1.nodes, STAGED) = 1
    /\ PseudoCount(right1.nodes, MODS) = 1
    /\ Len(right1.nodes) = 3


\* The timer of a page move fires when the highlight is not where it was
\* when the page key was pressed: a key pressed since has moved it.
FinalizesAfterEvent ==
    /\ DiffFinalizeHighlight
    /\ right2.index # NoIndex
    /\ right2.index # Head(right2.page).current_index

\* C32: the callback and the timer of PageUp and PageDown carry no state:
\* when a key pressed between the page key and the timer has set the index
\* of the Diff list, the index is the one that key produced once the timer
\* has fired.
C32_PageTimerKeepsSelection ==
    [][FinalizesAfterEvent => right2'.index = right2.index]_vars

\* C32, the part that holds: the index of the Diff list is within the list
\* it shows, also when the timer of a page move fires for a list that was
\* rendered after the page key.
C32_SelectionInRange ==
    right2.index \in {NoIndex} \cup (0..(DiffLen(right2.lines) - 1))


\* C33: whenever the Diff list has the focus, app.diff_fullscreen is true
\* exactly when the layout is the Diff list at 100% with the Files and the
\* History column collapsed, and false exactly when the layout is the
\* 5/15/80 split; so it is after the help was requested from fullscreen and
\* dismissed.
C33_FlagAgreesWithLayout ==
    focused = "right2" =>
        /\ app.diff_fullscreen <=> FullscreenShown
        /\ ~app.diff_fullscreen <=> ColumnsShown


\* The help is shown, or is dismissed and about to give the focus back,
\* and it was requested from the Diff pane.
HelpFromDiff ==
    /\ focused = "right3"
    /\ app.saved_column_state # <<>>
    /\ RightmostVisible(app.saved_column_state[1]) = "right2"

\* C34: app.diff_fullscreen is true only if the Diff list has the focus, or
\* the Help list has it and the help was requested from the Diff pane in
\* fullscreen; whenever the Files or the History list has the focus the
\* flag is false.
C34_FullscreenOnlyInDiff ==
    /\ app.diff_fullscreen => focused = "right2" \/ HelpFromDiff
    /\ focused \in {"left", "right1"} => ~app.diff_fullscreen

\* The help is shown over the Diff pane in fullscreen.
C34_Witness ==
    /\ HelpFromDiff
    /\ app.diff_fullscreen
    /\ SavedFullscreen
    /\ right3.display = "block"


\* c or C is pressed in the Diff pane: the colorization flag changes.
Recolors == DiffKey /\ app'.colorize_diff # app.colorize_diff

\* C35: whenever the Diff list has the focus, the cached request is the
\* pair the header of the list names (older, newer) for the file whose
\* history the History list holds; c / C renders the same pair again and
\* leaves the cached request as it is.
C35_CachedRequestIsOnScreen ==
    /\ [](focused = "right2" =>
            /\ <<CachedRequest[1], CachedRequest[2]>> = right2.header
            /\ CachedRequest[3] = right1.filename)
    /\ [][Recolors =>
            /\ right2'.header = right2.header
            /\ CachedRequest' = CachedRequest]_vars

\* The Diff list has the focus and shows, after c was pressed, the diff of
\* the two commits of g, the second file whose history was opened.
C35_Witness ==
    /\ focused = "right2"
    /\ modal = None
    /\ ~app.colorize_diff
    /\ ~right2.colored
    /\ right2.header = <<"c1", "c2">>
    /\ right1.filename = "g"
    /\ CachedRequest = <<"c1", "c2", "g">>


Pseudo == {MODS, STAGED}

\* C36: in every request Right produces in the History pane, the two refs
\* are the refs of two different items of the list, the older ref is never
\* MODS, and when the newer ref is a commit the older ref is a commit: a
\* pseudo ref is never on the older side of a commit.
C36_NoPseudoOlderThanCommit ==
    HistorySelects =>
        /\ SelectPair(right1.nodes, right1.index).i_older
               # SelectPair(right1.nodes, right1.index).i_newer
        /\ SelectedRequest.prev # SelectedRequest.curr
        /\ SelectedRequest.prev # MODS
        /\ SelectedRequest.curr \notin Pseudo =>
               SelectedRequest.prev \notin Pseudo

\* One of the two pseudo entries is marked, the other is highlighted, and
\* Right is about to compare them: STAGED the older, MODS the newer ref.
C36_Witness ==
    /\ HistorySelects
    /\ Marked(right1.nodes) # {}
    /\ SelectedRequest.prev = STAGED
    /\ SelectedRequest.curr = MODS


\* C37: after Right on a file in the Files pane no item of the History list
\* is checked, whatever item was checked in the history shown before; and
\* the list never holds a checked item when it changes to another file, so
\* that a mark made in the history of one file never takes part in the
\* pairing for another.
C37_SelectClearsMark ==
    /\ [][FilesKey /\ focused' = "right1" => Marked(right1'.nodes) = {}]_vars
    /\ [][right1'.filename # right1.filename =>
            Marked(right1'.nodes) = {}]_vars

\* The history of g has just been opened, with no item checked, after the
\* oldest commit of f was compared with its working file, for which an item
\* of the history of f was checked.
C37_Witness ==
    /\ focused = "right1"
    /\ right1.filename = "g"
    /\ right1.index = 0
    /\ Marked(right1.nodes) = {}
    /\ CachedRequest = <<"c1", MODS, "f">>


\* The list holds the `..` item.
HasParentItem(list) == \E i \in 1..Len(list.items) : list.items[i] = ".."

\* C38: when listing the directory fails after Right on a directory, the
\* Files pane stays navigable: the listed directory is the one it was, or
\* the list holds the `..` item that leads back to it.
C38_FailedListingLeavesWayBack ==
    [][FilesKey /\ ~Readable(left'.path) =>
          left'.path = left.path \/ HasParentItem(left')]_vars

\* C38, what the program does: after Right on a directory that cannot be
\* read, the Files list and the application are in that directory and the
\* list holds the one item of the error message, highlighted.
C38_FailedListingIsEntered ==
    [][FilesRightDir /\ ~Readable(left'.path) =>
          /\ left'.path # left.path
          /\ app'.path = left'.path
          /\ left'.items = <<None>>
          /\ left'.index = 0]_vars


\* The path is the root of the repository or below it.
InRepo(path) == CommonPrefixLen(path, RepoRoot) = Len(RepoRoot)

C40_AppPathIsListedDirectory ==
    Running => app.path = left.path

\* The history of d/f is open after Right on the directory d: the
\* application and the Files list are both in d.
C40_Witness ==
    /\ Running
    /\ focused = "right1"
    /\ right1.filename = "f"
    /\ left.nav = <<"child", "d">>
    /\ left.path = SubDir
    /\ app.path = SubDir

====
